---- MODULE Spec2Model ----
(***************************************************************************)
(* A model of the data-access and reconciliation layer of TaskFlow:        *)
(*   - the 3-tier cache of services/googleSheets.ts (memoryCache,          *)
(*     AsyncStorage, cachedApiGet, clearAllCaches),                        *)
(*   - the retrying HTTP client of the same file (apiGet, apiPost),        *)
(*   - the leaderboard reconciliation of the Apps Script back end          *)
(*     (handleGetLeaderboard),                                             *)
(*   - the write path from submitAction to the back end's handleSubmit.    *)
(* Each part has its own next-state relation and specification; the        *)
(* variables of the other parts stay at their initial values.              *)
(***************************************************************************)
EXTENDS Integers, Sequences, FiniteSets, TLC

VARIABLES
  now,          \* Date.now(), in ms since the start of the run
  memoryCache,  \* the module-level Map: key -> CacheEntry or NoEntry
  storage,      \* AsyncStorage: storage key -> what is stored under it, or NoEntry
  storageOps,   \* AsyncStorage requests issued and not yet served, oldest first
  calls,        \* the cachedApiGet calls made so far, in call order
  fetchCount,   \* key -> number of fetcher() invocations for the key
  populatedAt,  \* history: key -> time of the last cold-miss populate not followed by a clear, or Never
  fetchedAt,    \* history: key -> time the fetcher resolved with the value of the memory entry, or Never
  clear,        \* the clearAllCaches call in progress or just returned
  apiKind, apiPc, attempt, requests, timers, outcomes, lastText, apiError, apiData,
  lbPc,          \* where handleGetLeaderboard stands: idle, pass1, pass2, done
  rigToName,     \* the map built by buildRigToNameMap
  roster,        \* history: the rows of 'Collectors' the map was built from, kept until
                 \* handleGetLeaderboard has read past the first row of CA_TAGGED
  collectors,    \* the aggregate map: canonical name -> aggregate
  order,         \* the keys of collectors in creation order
  caRows,        \* CA_TAGGED rows folded so far
  logRows,       \* rows of the assignments log folded so far
  primaryHours,  \* history: name -> [sum, max, n]: hours and number of the CA_TAGGED rows resolved to it
  secondaryHours, \* history: name -> [sum, max, n]: hours and number of the log rows carrying it
  lastRegion,    \* history: name -> region of the site of the latest CA_TAGGED row resolved to it
  row,           \* history: the sheet row read last, and the identity it resolved to
  routes,        \* history: name -> the ways CA_TAGGED rows resolved to it (name, rig, raw)
  result,        \* the leaderboard returned
  appCache,      \* the row of the sheet _AppCache for the key 'leaderboard', or NoEntry
  clock,         \* Date.now() of the back end, in ms
  lbFrom,        \* history: where the call under way got its answer (cache, sheets, nosheet)
  payload,       \* the SubmitPayload of the submitAction call
  sheetLog,      \* the rows of the sheet 'Collector Task Assignments Log', or NoSheet
  served,        \* number of POST requests doPost has handled
  replies,       \* the envelope doPost answered to each request it handled
  appended,      \* history: number of rows appendRow has added to the log
  touched        \* history: the rows of the log that setValue has written to

cacheVars == <<now, memoryCache, storage, storageOps, calls, fetchCount, populatedAt, fetchedAt, clear>>
apiVars   == <<apiKind, apiPc, attempt, requests, timers, outcomes, lastText, apiError, apiData>>
lbVars    == <<lbPc, rigToName, roster, collectors, order, caRows, logRows, primaryHours, secondaryHours,
               lastRegion, row, routes, result, appCache, clock, lbFrom>>
submitVars == <<payload, sheetLog, served, replies, appended, touched>>
vars      == <<cacheVars, apiVars, lbVars, submitVars>>

(***************************************************************************)
(* Bounds of the model.                                                    *)
(***************************************************************************)
MaxCalls == 2      \* cachedApiGet calls in one run
MaxTicks == 3      \* clock ticks in one run
MaxCaRows  == 2    \* CA_TAGGED rows read in one reconciliation pass
MaxLogRows == 1    \* assignments-log rows read in one reconciliation pass
MaxRoster  == 3    \* rows of the sheet 'Collectors' below its header
MaxServerTicks == 4  \* clock ticks of the back end in one run

(***************************************************************************)
(* Part 1.  The cache.                                                     *)
(***************************************************************************)

\* The clock advances in steps of one minute: the ages 0, 60 s, 120 s, 180 s straddle
\* both TTLs of the default class and the memory TTL of adminDashboard.
TickMs == 60 * 1000

NoEntry == [none |-> TRUE]
Never   == 0 - 1
Null    == "null"                \* the JavaScript null a tier answers on a miss
Data    == {"v1", "v2"}          \* payloads: the handlers of the back end never answer null

\* A cache key is the sequence of its ':'-separated segments.
Keys == { <<"todayLog", "Ana">>, <<"adminDashboard">> }

\* `tf_cache_${key}`: a storage key is a text, the prefix spelled out in characters.
CACHE_PREFIX == <<"t", "f", "_", "c", "a", "c", "h", "e", "_">>
StorageKey(key) == CACHE_PREFIX \o key

\* What the rest of the application keeps in AsyncStorage: tf_language, tf_admin_session.
ForeignKeys ==
  { <<"t", "f", "_", "l", "a", "n", "g", "u", "a", "g", "e">>,
    <<"t", "f", "_", "a", "d", "m", "i", "n", "_", "s", "e", "s", "s", "i", "o", "n">> }
ForeignValue == [raw |-> "kept"]
AllKeys == { StorageKey(key) : key \in Keys } \cup ForeignKeys

\* k.startsWith(prefix)
startsWith(text, prefix) ==
  Len(text) >= Len(prefix) /\ SubSeq(text, 1, Len(prefix)) = prefix

Classes == {"collectors", "tasks", "leaderboard", "adminDashboard",
            "adminCollectors", "taskRequirements", "default"}

MEMORY_TTL ==
  [c \in Classes |->
     CASE c = "collectors"       -> 5 * 60 * 1000
       [] c = "tasks"            -> 5 * 60 * 1000
       [] c = "leaderboard"      -> 2 * 60 * 1000
       [] c = "adminDashboard"   -> 60 * 1000
       [] c = "adminCollectors"  -> 2 * 60 * 1000
       [] c = "taskRequirements" -> 2 * 60 * 1000
       [] c = "default"          -> 30 * 1000]

STORAGE_TTL ==
  [c \in Classes |->
     CASE c = "collectors"       -> 30 * 60 * 1000
       [] c = "tasks"            -> 30 * 60 * 1000
       [] c = "leaderboard"      -> 10 * 60 * 1000
       [] c = "adminDashboard"   -> 5 * 60 * 1000
       [] c = "adminCollectors"  -> 10 * 60 * 1000
       [] c = "taskRequirements" -> 10 * 60 * 1000
       [] c = "default"          -> 2 * 60 * 1000]

\* A variant whose fallback for an unlisted class is the longest memory TTL of the table.
getMemoryTTL_LongDefault(key) ==
  LET base == key[1]
  IN  IF base \in Classes THEN MEMORY_TTL[base] ELSE MEMORY_TTL["collectors"]

\* key.split(":")[0], then TABLE[base] ?? TABLE.default
getMemoryTTL(key) ==
  LET base == key[1]
  IN  IF base \in Classes THEN MEMORY_TTL[base] ELSE MEMORY_TTL["default"]

getStorageTTL(key) ==
  LET base == key[1]
  IN  IF base \in Classes THEN STORAGE_TTL[base] ELSE STORAGE_TTL["default"]

\* A variant that counts an entry as expired already at age = TTL.
MemoryRead_ExpiresAtTtl(key) ==
  LET entry == memoryCache[key]
  IN  IF entry = NoEntry THEN Null
      ELSE IF now - entry.ts >= getMemoryTTL(key) THEN Null
      ELSE entry.data

\* getFromMemory: the value it returns (Null on a miss) ...
MemoryRead(key) ==
  LET entry == memoryCache[key]
  IN  IF entry = NoEntry THEN Null
      ELSE IF now - entry.ts > getMemoryTTL(key) THEN Null
      ELSE entry.data

\* A variant that leaves an expired entry in the map.
MemoryAfterRead_KeepsExpired(key) == memoryCache

\* A variant that refreshes the timestamp of an entry it hits.
MemoryAfterRead_Touches(key) ==
  LET entry == memoryCache[key]
  IN  IF entry = NoEntry THEN memoryCache
      ELSE IF now - entry.ts > getMemoryTTL(key) THEN [memoryCache EXCEPT ![key] = NoEntry]
      ELSE [memoryCache EXCEPT ![key] = [data |-> entry.data, ts |-> now]]

\* ... and the map it leaves: an expired entry is deleted.
MemoryAfterRead(key) ==
  LET entry == memoryCache[key]
  IN  IF entry # NoEntry /\ now - entry.ts > getMemoryTTL(key)
      THEN [memoryCache EXCEPT ![key] = NoEntry]
      ELSE memoryCache

\* setInMemory
setInMemory(mem, key, data) == [mem EXCEPT ![key] = [data |-> data, ts |-> now]]

\* What AsyncStorage may hold under a cache key besides what setInStorage wrote: texts a
\* crash, another build or another writer left there.
CorruptTexts ==
  { <<>>, <<"{", "b", "a", "d">>, <<"n", "u", "l", "l">>, <<"{", "}">>, <<"1", "2">> }
IsText(item) == item # NoEntry /\ "raw" \in DOMAIN item

\* JSON.parse on these texts: null, a number, the empty object, or a SyntaxError.
JSONparse(text) ==
  IF text = <<"n", "u", "l", "l">> THEN [ok |-> TRUE, value |-> "null"]
  ELSE IF text = <<"{", "}">> THEN [ok |-> TRUE, value |-> "object"]
  ELSE IF text # <<>> /\ \A n \in 1 .. Len(text) :
                           text[n] \in {"0", "1", "2", "3", "4", "5", "6", "7", "8", "9"}
  THEN [ok |-> TRUE, value |-> "number"]
  ELSE [ok |-> FALSE]

\* entry.data of a value that has no such property
UndefinedData == "undefined"

\* getFromStorage on a text that is not an entry: '' is falsy (line 69), a SyntaxError and
\* the TypeError of null.ts end in the catch (line 76); on a number or {} entry.ts is
\* undefined, the age test of line 71 compares NaN and fails, and line 75 returns entry.data.
ReadText(text) ==
  IF text = <<>> THEN Null
  ELSE IF ~JSONparse(text).ok THEN Null
  ELSE IF JSONparse(text).value = "null" THEN Null
  ELSE UndefinedData

\* getFromStorage after getItem has answered: an entry past its TTL counts as absent.
StorageExpired(key) ==
  LET raw == storage[StorageKey(key)]
  IN  raw # NoEntry /\ ~IsText(raw) /\ now - raw.ts > getStorageTTL(key)

\* A variant that serves a stored entry whatever its age.
StorageRead_IgnoresTtl(key) ==
  IF storage[StorageKey(key)] = NoEntry THEN Null ELSE storage[StorageKey(key)].data

StorageRead(key) ==
  IF storage[StorageKey(key)] = NoEntry THEN Null
  ELSE IF IsText(storage[StorageKey(key)]) THEN ReadText(storage[StorageKey(key)].raw)
  ELSE IF StorageExpired(key) THEN Null
  ELSE storage[StorageKey(key)].data

\* setInStorage by call i: the entry is serialised with Date.now() at the call,
\* the write lands later.
SetOp(key, data, i) ==
  [op |-> "set", key |-> key, entry |-> [data |-> data, ts |-> now], call |-> i]

\* History kept with each call: warm (made within the memory TTL of a cold-miss populate
\* of its key, no clear in between), cold (made with the key absent from both tiers),
\* durable/seen (what getItem held when it answered: absent, fresh, expired, corrupt for
\* a text that is not an entry, failed when getItem rejected), remote (fetchLeaderboard
\* only: how the apiGet inside its fetcher ended: failed, empty, data), fetch/got (the state of the call's
\* fetcher invocation and the value it resolved with), landed (the state of the setItem
\* of that value), cleared (a clearAllCaches returned while the fetcher was in flight;
\* kept until the fetcher has failed or the setItem of its value is served).
Warm(key) ==
  populatedAt[key] # Never /\ now - populatedAt[key] <= getMemoryTTL(key)

Absent(key) == memoryCache[key] = NoEntry /\ storage[StorageKey(key)] = NoEntry

NewCall(key) ==
  [key |-> key, pc |-> "awaitStorage", outcome |-> "pending", result |-> Null,
   path |-> "none", fetches |-> 0, fetch |-> "none",
   warm |-> Warm(key), durable |-> "unread", seen |-> Null,
   cold |-> Absent(key), got |-> Null, landed |-> "none", cleared |-> FALSE,
   remote |-> "none"]

\* The clearAllCaches call: pc (idle, listing, removing, resolved), path (how it left:
\* empty = no cache key listed, removed = multiRemove done, caught = through the catch),
\* row (1 or 2: this run and the one before it ran with no step of cachedApiGet or of its
\* storage requests in between; 0 otherwise), prev (the path of the run before, when row = 2).
\* The record of a returned call is dropped at the next step of cachedApiGet.
ClearIdle == [pc |-> "idle", path |-> "none", row |-> 0, prev |-> "none"]
Forget == IF clear.pc = "resolved" THEN ClearIdle ELSE [clear EXCEPT !.row = 0, !.prev = "none"]

\* cachedApiGet up to its first await: a memory hit returns at once,
\* a miss asks AsyncStorage for the item.
Start(key) ==
  /\ Len(calls) < MaxCalls
  /\ LET mem == MemoryRead(key)
     IN  /\ memoryCache' = MemoryAfterRead(key)
         /\ fetchedAt' = IF MemoryAfterRead(key)[key] = NoEntry
                         THEN [fetchedAt EXCEPT ![key] = Never] ELSE fetchedAt
         /\ IF mem # Null
            THEN /\ calls' = Append(calls, [NewCall(key) EXCEPT !.pc = "done",
                                 !.outcome = "resolved", !.result = mem, !.path = "memory"])
                 /\ storageOps' = storageOps
            ELSE /\ calls' = Append(calls, NewCall(key))
                 /\ storageOps' = Append(storageOps, [op |-> "get", call |-> Len(calls) + 1])
  /\ clear' = Forget
  /\ UNCHANGED <<apiVars, lbVars, submitVars, now, storage, fetchCount, populatedAt>>

\* A variant with single-flight: a call that finds the fetcher of another call for its key
\* in flight starts none of its own.
StorageGet_SingleFlight(ok) ==
  /\ storageOps # <<>>
  /\ Head(storageOps).op = "get"
  /\ LET i      == Head(storageOps).call
         key    == calls[i].key
         shared == \E j \in 1 .. Len(calls) : j # i /\ calls[j].key = key /\ calls[j].fetch = "inflight"
     IN  /\ storageOps' = Tail(storageOps)
         /\ fetchCount' = IF shared THEN fetchCount ELSE [fetchCount EXCEPT ![key] = @ + 1]
         /\ calls' = [calls EXCEPT ![i] = [@ EXCEPT !.pc = "awaitFetch", !.path = "cold",
                        !.fetches = IF shared THEN 0 ELSE 1,
                        !.fetch = IF shared THEN "none" ELSE "inflight",
                        !.durable = "absent"]]
  /\ clear' = Forget
  /\ UNCHANGED <<apiVars, lbVars, submitVars, now, memoryCache, storage, populatedAt, fetchedAt>>

\* A variant that returns the stored value without copying it to the memory tier.
Backfill_Skips(key, stored) == memoryCache

\* setInMemory(cacheKey, stored) of a durable hit
Backfill(key, stored) == setInMemory(memoryCache, key, stored)

\* getItem answers call i, or fails (ok = FALSE): the rest of getFromStorage, then
\* cachedApiGet up to its next await (durable hit: backfill, start the fetcher, return;
\* miss: start the fetcher).
StorageGet(ok) ==
  /\ storageOps # <<>>
  /\ Head(storageOps).op = "get"
  /\ LET i       == Head(storageOps).call
         key     == calls[i].key
         stored  == IF ok THEN StorageRead(key) ELSE Null
         raw     == storage[StorageKey(key)]
         rest    == Tail(storageOps)
         expired == ok /\ StorageExpired(key)
         age     == IF ~ok THEN "failed"
                    ELSE IF raw = NoEntry THEN "absent"
                    ELSE IF IsText(raw) THEN "corrupt"
                    ELSE IF expired THEN "expired" ELSE "fresh"
         held    == IF ~ok \/ raw = NoEntry \/ IsText(raw) THEN Null ELSE raw.data
     IN  /\ storageOps' = IF expired
                          THEN Append(rest, [op |-> "remove", key |-> key])
                          ELSE rest
         /\ fetchCount' = [fetchCount EXCEPT ![key] = @ + 1]
         /\ IF stored # Null
            THEN /\ memoryCache' = Backfill(key, stored)
                 /\ fetchedAt' = [fetchedAt EXCEPT ![key] = IF IsText(raw) THEN Never ELSE raw.ts]
                 /\ calls' = [calls EXCEPT ![i] = [@ EXCEPT !.pc = "bgFetch",
                        !.outcome = "resolved", !.result = stored, !.path = "durable",
                        !.fetches = 1, !.fetch = "inflight",
                        !.durable = age, !.seen = held]]
            ELSE /\ memoryCache' = memoryCache
                 /\ fetchedAt' = fetchedAt
                 /\ calls' = [calls EXCEPT ![i] = [@ EXCEPT !.pc = "awaitFetch",
                        !.path = "cold", !.fetches = 1, !.fetch = "inflight",
                        !.durable = age, !.seen = held]]
  /\ clear' = Forget
  /\ UNCHANGED <<apiVars, lbVars, submitVars, now, storage, populatedAt>>

\* What a fetcher may resolve with. The names of the payloads are arbitrary: the first
\* payload of a run in which none is known yet is called v1.
Offered ==
  IF /\ \A key \in Keys : memoryCache[key] = NoEntry /\ storage[StorageKey(key)] = NoEntry
     /\ \A i \in 1 .. Len(calls) : calls[i].got = Null /\ calls[i].seen = Null
     /\ \A n \in 1 .. Len(storageOps) : storageOps[n].op # "set"
  THEN {"v1"} ELSE Data

\* A variant that drops the result of a fetcher a clearAllCaches has overtaken.
FetchOk_DropsAfterClear(i, data) ==
  /\ i \in 1 .. Len(calls)
  /\ data \in Offered
  /\ calls[i].pc \in {"bgFetch", "awaitFetch"}
  /\ LET key  == calls[i].key
         keep == ~calls[i].cleared
     IN  /\ memoryCache' = IF keep THEN setInMemory(memoryCache, key, data) ELSE memoryCache
         /\ fetchedAt' = IF keep THEN [fetchedAt EXCEPT ![key] = now] ELSE fetchedAt
         /\ storageOps' = IF keep THEN Append(storageOps, SetOp(key, data, i)) ELSE storageOps
         /\ IF calls[i].pc = "awaitFetch"
            THEN /\ calls' = [calls EXCEPT ![i] = [@ EXCEPT !.pc = "done", !.fetch = "ok",
                                   !.outcome = "resolved", !.result = data, !.got = data,
                                   !.landed = IF keep THEN "queued" ELSE "none"]]
                 /\ populatedAt' = [populatedAt EXCEPT ![key] = now]
            ELSE /\ calls' = [calls EXCEPT ![i] = [@ EXCEPT !.pc = "done", !.fetch = "ok",
                                   !.got = data, !.landed = IF keep THEN "queued" ELSE "none"]]
                 /\ populatedAt' = populatedAt
  /\ clear' = Forget
  /\ UNCHANGED <<apiVars, lbVars, submitVars, now, storage, fetchCount>>

\* A variant that writes the fetched value to the memory tier only.
FetchOk_MemoryOnly(i, data) ==
  /\ i \in 1 .. Len(calls)
  /\ data \in Offered
  /\ calls[i].pc \in {"bgFetch", "awaitFetch"}
  /\ LET key == calls[i].key
     IN  /\ memoryCache' = setInMemory(memoryCache, key, data)
         /\ fetchedAt' = [fetchedAt EXCEPT ![key] = now]
         /\ IF calls[i].pc = "awaitFetch"
            THEN /\ calls' = [calls EXCEPT ![i] = [@ EXCEPT !.pc = "done", !.fetch = "ok",
                                   !.outcome = "resolved", !.result = data, !.got = data]]
                 /\ populatedAt' = [populatedAt EXCEPT ![key] = now]
            ELSE /\ calls' = [calls EXCEPT ![i] = [@ EXCEPT !.pc = "done", !.fetch = "ok",
                                   !.got = data]]
                 /\ populatedAt' = populatedAt
  /\ clear' = Forget
  /\ UNCHANGED <<apiVars, lbVars, submitVars, now, storage, storageOps, fetchCount>>

\* The fetcher of call i resolves with data: both tiers are written; a cold miss returns it.
FetchOk(i, data) ==
  /\ i \in 1 .. Len(calls)
  /\ data \in Offered
  /\ calls[i].pc \in {"bgFetch", "awaitFetch"}
  /\ LET key == calls[i].key
     IN  /\ memoryCache' = setInMemory(memoryCache, key, data)
         /\ fetchedAt' = [fetchedAt EXCEPT ![key] = now]
         /\ storageOps' = Append(storageOps, SetOp(key, data, i))
         /\ IF calls[i].pc = "awaitFetch"
            THEN /\ calls' = [calls EXCEPT ![i] = [@ EXCEPT !.pc = "done", !.fetch = "ok",
                                   !.outcome = "resolved", !.result = data, !.got = data,
                                   !.landed = "queued"]]
                 /\ populatedAt' = [populatedAt EXCEPT ![key] = now]
            ELSE /\ calls' = [calls EXCEPT ![i] = [@ EXCEPT !.pc = "done", !.fetch = "ok",
                                   !.got = data, !.landed = "queued"]]
                 /\ populatedAt' = populatedAt
  /\ clear' = Forget
  /\ UNCHANGED <<apiVars, lbVars, submitVars, now, storage, fetchCount>>

\* A variant without the .catch of the background refresh: the rejection escapes.
FetchFail_NoCatch(i) ==
  /\ i \in 1 .. Len(calls)
  /\ calls[i].pc \in {"bgFetch", "awaitFetch"}
  /\ calls' = [calls EXCEPT ![i] =
                 [@ EXCEPT !.pc = "done", !.fetch = "failed", !.outcome = "rejected"]]
  /\ clear' = Forget
  /\ UNCHANGED <<apiVars, lbVars, submitVars, now, memoryCache, storage, storageOps, fetchCount,
                 populatedAt, fetchedAt>>

\* A variant that remembers the failure of a cold miss as an entry of the memory tier.
FetchFail_CachesFailure(i) ==
  /\ i \in 1 .. Len(calls)
  /\ calls[i].pc \in {"bgFetch", "awaitFetch"}
  /\ calls' = [calls EXCEPT ![i] =
                 IF @.pc = "awaitFetch"
                 THEN [@ EXCEPT !.pc = "done", !.fetch = "failed", !.outcome = "rejected"]
                 ELSE [@ EXCEPT !.pc = "done", !.fetch = "failed"]]
  /\ memoryCache' = IF calls[i].pc = "awaitFetch"
                    THEN setInMemory(memoryCache, calls[i].key, Null)
                    ELSE memoryCache
  /\ clear' = Forget
  /\ UNCHANGED <<apiVars, lbVars, submitVars, now, storage, storageOps, fetchCount, populatedAt, fetchedAt>>

\* The fetcher of call i rejects: swallowed in the background, thrown to a cold-miss caller.
FetchFail(i) ==
  /\ i \in 1 .. Len(calls)
  /\ calls[i].pc \in {"bgFetch", "awaitFetch"}
  /\ calls' = [calls EXCEPT ![i] =
                 IF @.pc = "awaitFetch"
                 THEN [@ EXCEPT !.pc = "done", !.fetch = "failed", !.outcome = "rejected",
                                !.cleared = FALSE]
                 ELSE [@ EXCEPT !.pc = "done", !.fetch = "failed", !.cleared = FALSE]]
  /\ clear' = Forget
  /\ UNCHANGED <<apiVars, lbVars, submitVars, now, memoryCache, storage, storageOps, fetchCount,
                 populatedAt, fetchedAt>>

\* AsyncStorage serves the setItem of setInStorage, or fails it (storage full or
\* unavailable: the catch of setInStorage swallows it).
StorageSet(ok) ==
  /\ storageOps # <<>>
  /\ Head(storageOps).op = "set"
  /\ LET op == Head(storageOps)
     IN  /\ storage' = IF ok THEN [storage EXCEPT ![StorageKey(op.key)] = op.entry] ELSE storage
         /\ calls' = [calls EXCEPT ![op.call] =
                        [@ EXCEPT !.landed = IF ok THEN "landed" ELSE "failed", !.cleared = FALSE]]
  /\ storageOps' = Tail(storageOps)
  /\ clear' = Forget
  /\ UNCHANGED <<apiVars, lbVars, submitVars, now, memoryCache, fetchCount, populatedAt, fetchedAt>>

\* AsyncStorage serves the removeItem of getFromStorage, or fails it (swallowed by .catch).
StorageRemove(ok) ==
  /\ storageOps # <<>>
  /\ Head(storageOps).op = "remove"
  /\ storage' = IF ok THEN [storage EXCEPT ![StorageKey(Head(storageOps).key)] = NoEntry]
                ELSE storage
  /\ storageOps' = Tail(storageOps)
  /\ clear' = Forget
  /\ UNCHANGED <<apiVars, lbVars, submitVars, now, memoryCache, calls, fetchCount, populatedAt, fetchedAt>>

ClearPending == clear.pc \in {"listing", "removing"}

\* clearAllCaches up to its first await.
ClearStart ==
  /\ ~ClearPending
  /\ memoryCache' = [k \in Keys |-> NoEntry]
  /\ storageOps' = Append(storageOps, [op |-> "keys"])
  /\ populatedAt' = [k \in Keys |-> Never]
  /\ fetchedAt' = [k \in Keys |-> Never]
  /\ clear' = IF clear.pc = "resolved" /\ clear.row >= 1
              THEN [pc |-> "listing", path |-> "none", row |-> 2, prev |-> clear.path]
              ELSE [pc |-> "listing", path |-> "none", row |-> 1, prev |-> "none"]
  /\ UNCHANGED <<apiVars, lbVars, submitVars, now, storage, calls, fetchCount>>

\* clearAllCaches returns: the calls whose fetcher is in flight are marked.
Returned(path) ==
  /\ clear' = [clear EXCEPT !.pc = "resolved", !.path = path]
  /\ calls' = [i \in DOMAIN calls |->
                 IF calls[i].fetch = "inflight" THEN [calls[i] EXCEPT !.cleared = TRUE]
                 ELSE calls[i]]

\* A variant that hands every key to multiRemove.
CacheKeysOf_NoFilter(keys) == keys

\* keys.filter(k => k.startsWith("tf_cache_"))
CacheKeysOf(keys) == { k \in keys : startsWith(k, CACHE_PREFIX) }

\* A variant without the try/catch: a failing getAllKeys rejects clearAllCaches.
StorageKeys_NoCatch(ok) ==
  /\ storageOps # <<>>
  /\ Head(storageOps).op = "keys"
  /\ LET cacheKeys == CacheKeysOf({ k \in AllKeys : storage[k] # NoEntry })
     IN  IF ok /\ cacheKeys # {}
         THEN /\ storageOps' = Append(Tail(storageOps), [op |-> "multiRemove", keys |-> cacheKeys])
              /\ clear' = [clear EXCEPT !.pc = "removing"]
              /\ calls' = calls
         ELSE /\ storageOps' = Tail(storageOps)
              /\ clear' = [clear EXCEPT !.pc = IF ok THEN "resolved" ELSE "rejected",
                                        !.path = IF ok THEN "empty" ELSE "thrown"]
              /\ calls' = calls
  /\ UNCHANGED <<apiVars, lbVars, submitVars, now, memoryCache, storage, fetchCount, populatedAt, fetchedAt>>

\* getAllKeys answers, or fails: the keys with the cache prefix are handed to multiRemove;
\* with none of them, or after a failure, clearAllCaches returns.
StorageKeys(ok) ==
  /\ storageOps # <<>>
  /\ Head(storageOps).op = "keys"
  /\ LET cacheKeys == CacheKeysOf({ k \in AllKeys : storage[k] # NoEntry })
     IN  IF ok /\ cacheKeys # {}
         THEN /\ storageOps' = Append(Tail(storageOps), [op |-> "multiRemove", keys |-> cacheKeys])
              /\ clear' = [clear EXCEPT !.pc = "removing"]
              /\ calls' = calls
         ELSE /\ storageOps' = Tail(storageOps)
              /\ Returned(IF ok THEN "empty" ELSE "caught")
  /\ UNCHANGED <<apiVars, lbVars, submitVars, now, memoryCache, storage, fetchCount, populatedAt, fetchedAt>>

\* multiRemove answers, or fails having removed only the keys in gone;
\* either way clearAllCaches returns.
StorageMultiRemove(ok, gone) ==
  /\ storageOps # <<>>
  /\ Head(storageOps).op = "multiRemove"
  /\ gone \subseteq Head(storageOps).keys
  /\ ok => gone = Head(storageOps).keys
  /\ storage' = [k \in AllKeys |-> IF k \in gone THEN NoEntry ELSE storage[k]]
  /\ storageOps' = Tail(storageOps)
  /\ Returned(IF ok THEN "removed" ELSE "caught")
  /\ UNCHANGED <<apiVars, lbVars, submitVars, now, memoryCache, fetchCount, populatedAt, fetchedAt>>

Tick ==
  /\ now < MaxTicks * TickMs
  /\ now' = now + TickMs
  /\ UNCHANGED <<apiVars, lbVars, submitVars, memoryCache, storage, storageOps, calls, fetchCount,
                 populatedAt, fetchedAt, clear>>

InitCache ==
  /\ now = 0
  /\ memoryCache = [k \in Keys |-> NoEntry]
  /\ storage = [k \in AllKeys |-> IF k \in ForeignKeys THEN ForeignValue ELSE NoEntry]
  /\ storageOps = <<>>
  /\ calls = <<>>
  /\ fetchCount = [k \in Keys |-> 0]
  /\ populatedAt = [k \in Keys |-> Never]
  /\ fetchedAt = [k \in Keys |-> Never]
  /\ clear = ClearIdle

\* cachedApiGet and clearAllCaches over a store that answers every request but may fail
\* a removeItem, as time passes.
NextCache ==
     \/ \E key \in Keys : Start(key)
     \/ StorageGet(TRUE)
     \/ \E i \in 1 .. MaxCalls, data \in Data : FetchOk(i, data)
     \/ \E i \in 1 .. MaxCalls : FetchFail(i)
     \/ StorageSet(TRUE)
     \/ \E ok \in BOOLEAN : StorageRemove(ok)
     \/ ClearStart
     \/ StorageKeys(TRUE)
     \/ \E gone \in SUBSET AllKeys : StorageMultiRemove(TRUE, gone)
     \/ Tick

\* AsyncStorage serves the request at the head of its queue, or fails it.
Serve ==
     \/ \E ok \in BOOLEAN : StorageGet(ok)
     \/ \E ok \in BOOLEAN : StorageSet(ok)
     \/ \E ok \in BOOLEAN : StorageKeys(ok)
     \/ \E ok \in BOOLEAN, gone \in SUBSET AllKeys : StorageMultiRemove(ok, gone)

\* cachedApiGet and clearAllCaches over a store that may fail any request, within the
\* TTLs (the clock stands still).
NextFaulty ==
     \/ \E key \in Keys : Start(key)
     \/ \E ok \in BOOLEAN : StorageGet(ok)
     \/ \E i \in 1 .. MaxCalls, data \in Data : FetchOk(i, data)
     \/ \E i \in 1 .. MaxCalls : FetchFail(i)
     \/ \E ok \in BOOLEAN : StorageSet(ok)
     \/ ClearStart
     \/ \E ok \in BOOLEAN : StorageKeys(ok)
     \/ \E ok \in BOOLEAN, gone \in SUBSET AllKeys : StorageMultiRemove(ok, gone)

InitApi ==
  /\ apiKind = "none" /\ apiPc = "idle" /\ attempt = 0 /\ requests = 0 /\ timers = {}
  /\ outcomes = <<>> /\ lastText = <<>> /\ apiError = <<>> /\ apiData = Null

\* No sheet row read yet.
NoRow == [src |-> "none", name |-> <<>>, rig |-> <<>>, who |-> <<>>, hours |-> 0]

InitBoard ==
  /\ lbPc = "idle" /\ rigToName = <<>> /\ roster = <<>> /\ collectors = <<>> /\ order = <<>>
  /\ caRows = 0 /\ logRows = 0 /\ primaryHours = <<>> /\ secondaryHours = <<>>
  /\ lastRegion = <<>> /\ row = NoRow /\ routes = <<>> /\ result = <<>>
  /\ appCache = NoEntry /\ clock = 0 /\ lbFrom = "none"

\* No submitAction call is made. A sheet that exists holds its header row at least, so
\* the empty sequence stands for the sheet that does not exist.
NoSheet   == <<>>
NoPayload == [none |-> TRUE]
InitNoSubmit ==
  /\ payload = NoPayload /\ sheetLog = NoSheet /\ served = 0 /\ replies = <<>>
  /\ appended = 0 /\ touched = {}

Init == InitCache /\ InitApi /\ InitBoard /\ InitNoSubmit

SpecCache == Init /\ [][NextCache]_vars

\* The application is started again over what an earlier run left in AsyncStorage: an
\* adminDashboard entry written five minutes before the start.
PersistedAt == 0 - 5 * TickMs
InitCacheRestart ==
  /\ now = 0
  /\ memoryCache = [k \in Keys |-> NoEntry]
  /\ storage = [k \in AllKeys |->
                  IF k \in ForeignKeys THEN ForeignValue
                  ELSE IF k = StorageKey(<<"adminDashboard">>)
                  THEN [data |-> "v1", ts |-> PersistedAt]
                  ELSE NoEntry]
  /\ storageOps = <<>>
  /\ calls = <<>>
  /\ fetchCount = [k \in Keys |-> 0]
  /\ populatedAt = [k \in Keys |-> Never]
  /\ fetchedAt = [k \in Keys |-> Never]
  /\ clear = ClearIdle

InitRestart == InitCacheRestart /\ InitApi /\ InitBoard /\ InitNoSubmit

SpecRestart == InitRestart /\ [][NextCache]_vars

SpecFaulty == InitRestart /\ [][NextFaulty]_vars

\* Every request handed to AsyncStorage is answered in the end.
SpecFaultyLive == SpecFaulty /\ WF_vars(Serve)

\* The application is started over a store in which the todayLog entry is a text that
\* setInStorage did not write.
InitCorrupt ==
  /\ now = 0
  /\ memoryCache = [k \in Keys |-> NoEntry]
  /\ storage \in { [k \in AllKeys |->
                       IF k \in ForeignKeys THEN ForeignValue
                       ELSE IF k = StorageKey(<<"todayLog", "Ana">>) THEN [raw |-> text]
                       ELSE NoEntry] : text \in CorruptTexts }
  /\ storageOps = <<>>
  /\ calls = <<>>
  /\ fetchCount = [k \in Keys |-> 0]
  /\ populatedAt = [k \in Keys |-> Never]
  /\ fetchedAt = [k \in Keys |-> Never]
  /\ clear = ClearIdle
  /\ InitApi /\ InitBoard /\ InitNoSubmit

\* cachedApiGet alone over a store that may fail any request.
NextCalls ==
     \/ \E key \in Keys : Start(key)
     \/ \E ok \in BOOLEAN : StorageGet(ok)
     \/ \E i \in 1 .. MaxCalls, data \in Data : FetchOk(i, data)
     \/ \E i \in 1 .. MaxCalls : FetchFail(i)
     \/ \E ok \in BOOLEAN : StorageSet(ok)

SpecCorrupt == InitCorrupt /\ [][NextCalls]_vars

\* The same calls over the store an earlier run left.
SpecTiers == InitRestart /\ [][NextCalls]_vars

\* fetchLeaderboard: cachedApiGet("leaderboard", fetcher), where the fetcher awaits
\* apiGet("getLeaderboard") inside a try whose catch returns [].
LeaderboardKey == <<"leaderboard">>
EmptyList == "[]"
RemoteOutcomes == {"failed", "empty", "data"}

\* A variant of the fetcher without its try/catch: a failure of apiGet rejects it and an
\* empty list is returned as it came.
LeaderboardFetcher_NoCatch(i, outcome) ==
  /\ i \in 1 .. Len(calls)
  /\ outcome \in RemoteOutcomes
  /\ calls[i].key = LeaderboardKey
  /\ calls[i].pc \in {"bgFetch", "awaitFetch"}
  /\ IF outcome = "failed"
     THEN /\ calls' = [calls EXCEPT ![i] =
                         IF @.pc = "awaitFetch"
                         THEN [@ EXCEPT !.pc = "done", !.fetch = "failed", !.remote = outcome,
                                        !.outcome = "rejected"]
                         ELSE [@ EXCEPT !.pc = "done", !.fetch = "failed", !.remote = outcome]]
          /\ UNCHANGED <<memoryCache, fetchedAt, storageOps, populatedAt>>
     ELSE LET data == IF outcome = "data" THEN "v1" ELSE EmptyList
          IN  /\ memoryCache' = setInMemory(memoryCache, LeaderboardKey, data)
              /\ fetchedAt' = [fetchedAt EXCEPT ![LeaderboardKey] = now]
              /\ storageOps' = Append(storageOps, SetOp(LeaderboardKey, data, i))
              /\ calls' = [calls EXCEPT ![i] =
                             IF @.pc = "awaitFetch"
                             THEN [@ EXCEPT !.pc = "done", !.fetch = "ok", !.remote = outcome,
                                     !.outcome = "resolved", !.result = data, !.got = data,
                                     !.landed = "queued"]
                             ELSE [@ EXCEPT !.pc = "done", !.fetch = "ok", !.remote = outcome,
                                     !.got = data, !.landed = "queued"]]
              /\ populatedAt' = IF calls[i].pc = "awaitFetch"
                                THEN [populatedAt EXCEPT ![LeaderboardKey] = now]
                                ELSE populatedAt
  /\ clear' = Forget
  /\ UNCHANGED <<apiVars, lbVars, submitVars, now, storage, fetchCount>>

\* The fetcher of call i settles after its apiGet has failed, has answered an empty
\* list or has answered a list with entries: it resolves with [] in the first two cases
\* (lines 351-356), and cachedApiGet writes what it resolved with to both tiers.
LeaderboardFetcher(i, outcome) ==
  /\ i \in 1 .. Len(calls)
  /\ outcome \in RemoteOutcomes
  /\ calls[i].key = LeaderboardKey
  /\ calls[i].pc \in {"bgFetch", "awaitFetch"}
  /\ LET data == IF outcome = "data" THEN "v1" ELSE EmptyList
     IN  /\ memoryCache' = setInMemory(memoryCache, LeaderboardKey, data)
         /\ fetchedAt' = [fetchedAt EXCEPT ![LeaderboardKey] = now]
         /\ storageOps' = Append(storageOps, SetOp(LeaderboardKey, data, i))
         /\ calls' = [calls EXCEPT ![i] =
                        IF @.pc = "awaitFetch"
                        THEN [@ EXCEPT !.pc = "done", !.fetch = "ok", !.remote = outcome,
                                !.outcome = "resolved", !.result = data, !.got = data,
                                !.landed = "queued"]
                        ELSE [@ EXCEPT !.pc = "done", !.fetch = "ok", !.remote = outcome,
                                !.got = data, !.landed = "queued"]]
         /\ populatedAt' = IF calls[i].pc = "awaitFetch"
                           THEN [populatedAt EXCEPT ![LeaderboardKey] = now]
                           ELSE populatedAt
  /\ clear' = Forget
  /\ UNCHANGED <<apiVars, lbVars, submitVars, now, storage, fetchCount>>

\* The application starts with nothing cached for the leaderboard.
InitFetchLeaderboard ==
  /\ now = 0
  /\ memoryCache = [k \in {LeaderboardKey} |-> NoEntry]
  /\ storage = [k \in {StorageKey(LeaderboardKey)} \cup ForeignKeys |->
                  IF k \in ForeignKeys THEN ForeignValue ELSE NoEntry]
  /\ storageOps = <<>>
  /\ calls = <<>>
  /\ fetchCount = [k \in {LeaderboardKey} |-> 0]
  /\ populatedAt = [k \in {LeaderboardKey} |-> Never]
  /\ fetchedAt = [k \in {LeaderboardKey} |-> Never]
  /\ clear = ClearIdle
  /\ InitApi /\ InitBoard /\ InitNoSubmit

\* fetchLeaderboard calls as time passes, over a store that may fail any request.
NextFetchLeaderboard ==
     \/ Start(LeaderboardKey)
     \/ \E ok \in BOOLEAN : StorageGet(ok)
     \/ \E i \in 1 .. MaxCalls, outcome \in RemoteOutcomes : LeaderboardFetcher(i, outcome)
     \/ \E ok \in BOOLEAN : StorageSet(ok)
     \/ Tick

SpecFetchLeaderboard == InitFetchLeaderboard /\ [][NextFetchLeaderboard]_vars

\* Concurrent cachedApiGet calls whose fetchers all succeed, over a store that serves
\* every request, within the TTLs.
NextRefresh ==
     \/ \E key \in Keys : Start(key)
     \/ StorageGet(TRUE)
     \/ \E i \in 1 .. MaxCalls, data \in Data : FetchOk(i, data)
     \/ StorageSet(TRUE)

SpecRefresh == InitRestart /\ [][NextRefresh]_vars

(***************************************************************************)
(* Properties of the cache, checked under SpecCache, SpecFaulty and        *)
(* SpecFaultyLive.                                                         *)
(***************************************************************************)
CallIds == 1 .. Len(calls)

C4_WarmCallHitsMemory ==
  \A i \in CallIds :
    calls[i].warm =>
      /\ calls[i].pc = "done" /\ calls[i].path = "memory"
      /\ calls[i].outcome = "resolved" /\ calls[i].result \in Data
      /\ calls[i].fetches = 0 /\ calls[i].fetch = "none"

\* The warm call is made exactly at the end of the memory TTL, and the fetcher ran once.
C4_Witness ==
  \E i \in CallIds :
    /\ calls[i].warm /\ calls[i].path = "memory"
    /\ fetchCount[calls[i].key] = 1
    /\ now - populatedAt[calls[i].key] = getMemoryTTL(calls[i].key)

\* C9: when the fetcher of a cold miss rejects, the call rejects and the step writes
\* nothing to the memory tier, the durable tier or the queue of durable writes.
C9_ColdFailureCachesNothing ==
  [][\A i \in CallIds :
       (calls[i].pc = "awaitFetch" /\ calls'[i].fetch = "failed")
         => /\ calls'[i].outcome = "rejected"
            /\ memoryCache' = memoryCache
            /\ storage' = storage
            /\ storageOps' = storageOps]_vars

C9_Witness ==
  \E i \in CallIds :
    /\ calls[i].path = "cold" /\ calls[i].fetch = "failed" /\ calls[i].outcome = "rejected"
    /\ calls[i].durable = "absent"
    /\ memoryCache[calls[i].key] = NoEntry /\ storage[StorageKey(calls[i].key)] = NoEntry

\* C10: when the background fetcher of a durable hit rejects, the caller keeps the stored
\* value it was resolved with, nothing is rejected, and the step changes neither tier.
C10_BackgroundFailureSwallowed ==
  [][\A i \in CallIds :
       (calls[i].pc = "bgFetch" /\ calls'[i].fetch = "failed")
         => /\ calls'[i].outcome = "resolved"
            /\ calls'[i].result = calls[i].seen
            /\ memoryCache' = memoryCache
            /\ storage' = storage
            /\ storageOps' = storageOps]_vars

C10_Witness ==
  \E i \in CallIds :
    /\ calls[i].path = "durable" /\ calls[i].fetch = "failed" /\ calls[i].outcome = "resolved"
    /\ memoryCache[calls[i].key] # NoEntry /\ memoryCache[calls[i].key].data = calls[i].seen
    /\ storage[StorageKey(calls[i].key)] # NoEntry
    /\ storage[StorageKey(calls[i].key)].data = calls[i].seen

\* The memory tier holds an entry of the key that is fresh per the memory TTL.
MemoryFresh(key) ==
  memoryCache[key] # NoEntry /\ now - memoryCache[key].ts <= getMemoryTTL(key)

\* The step is the entry of a new cachedApiGet call for key.
Called(key) == Len(calls') = Len(calls) + 1 /\ calls'[Len(calls')].key = key

\* C11: a call that finds a fresh entry of its key in the memory tier returns the entry's
\* value in that same step, invokes no fetcher, hands no request to AsyncStorage and leaves
\* the memory tier and the durable tier as they were; it never invokes a fetcher later.
C11_MemoryHitTouchesNothing ==
  /\ [][\A key \in Keys :
          (Called(key) /\ MemoryFresh(key))
            => /\ calls'[Len(calls')].pc = "done"
               /\ calls'[Len(calls')].outcome = "resolved"
               /\ calls'[Len(calls')].result = memoryCache[key].data
               /\ calls'[Len(calls')].fetches = 0
               /\ fetchCount' = fetchCount
               /\ storageOps' = storageOps
               /\ storage' = storage
               /\ memoryCache' = memoryCache]_vars
  /\ [](\A i \in CallIds :
          calls[i].path = "memory"
            => /\ calls[i].pc = "done" /\ calls[i].fetches = 0
               /\ calls[i].fetch = "none" /\ calls[i].landed = "none")

\* A hit at the end of the memory TTL on an entry whose setItem is still waiting: the
\* durable tier is as empty as before the hit.
C11_Witness ==
  \E i, j \in CallIds :
    /\ j < i /\ calls[i].key = calls[j].key
    /\ calls[j].path = "cold" /\ calls[j].landed = "queued"
    /\ calls[i].path = "memory" /\ calls[i].result = calls[j].got
    /\ memoryCache[calls[i].key] = [data |-> calls[j].got, ts |-> now - TickMs]
    /\ storage[StorageKey(calls[i].key)] = NoEntry
    /\ fetchCount[calls[i].key] = 1

\* The setItem of the value call i fetched has been served and the durable tier holds it.
Landed(i) ==
  /\ i \in CallIds
  /\ calls[i].landed = "landed"
  /\ storage[StorageKey(calls[i].key)] # NoEntry
  /\ storage[StorageKey(calls[i].key)].data = calls[i].got

WriteFailed(i) == i \in CallIds /\ calls[i].landed = "failed"

\* The fetcher of call i has resolved and the setItem of its value is waiting.
Writing(i) == i \in CallIds /\ calls[i].fetch = "ok" /\ calls[i].landed = "queued"

Refreshed(i) == i \in CallIds /\ calls[i].path = "durable" /\ calls[i].fetch = "ok"

\* What C12 says of a durable hit before its fetcher settles, and of the step in which
\* the fetcher resolves: the stored value is in the memory tier and with the caller, one
\* fetcher is in flight; its value goes to the memory tier and a setItem of it is issued.
DurableHitServed ==
  /\ [](\A i \in CallIds :
          calls[i].path = "durable"
            => /\ calls[i].outcome = "resolved" /\ calls[i].result = calls[i].seen
               /\ calls[i].result \in Data /\ calls[i].fetches = 1)
  /\ [][\A i \in CallIds :
          /\ (calls[i].pc = "awaitStorage" /\ calls'[i].pc = "bgFetch")
               => /\ memoryCache'[calls[i].key] = [data |-> calls'[i].result, ts |-> now]
                  /\ calls'[i].fetch = "inflight"
                  /\ fetchCount'[calls[i].key] = fetchCount[calls[i].key] + 1
          /\ (calls[i].pc = "bgFetch" /\ calls'[i].fetch = "ok")
               => /\ memoryCache'[calls[i].key] = [data |-> calls'[i].got, ts |-> now]
                  /\ calls'[i].landed = "queued"
                  /\ storageOps' # <<>>
                  /\ storageOps'[Len(storageOps')].op = "set"
                  /\ storageOps'[Len(storageOps')].entry = [data |-> calls'[i].got, ts |-> now]]_vars

\* C12 as stated: a durable hit backfills the memory tier, returns the stored value before
\* its fetcher settles and starts exactly one background fetcher call; when that call
\* succeeds, the memory tier holds the fetched value and the durable tier holds it in the end.
C12_RefreshReachesBothTiers ==
  /\ DurableHitServed
  /\ \A i \in 1 .. MaxCalls : (Refreshed(i) /\ Writing(i)) ~> Landed(i)

\* C12 amended: the same, but the durable tier holds the fetched value in the end only
\* when its setItem does not fail; a failed setItem is swallowed and leaves the durable
\* tier as it was.
C12_RefreshReachesBothTiersUnlessWriteFails ==
  /\ DurableHitServed
  /\ \A i \in 1 .. MaxCalls : (Refreshed(i) /\ Writing(i)) ~> (Landed(i) \/ WriteFailed(i))
  /\ [][\A i \in CallIds :
          (calls[i].landed = "queued" /\ calls'[i].landed = "failed") => storage' = storage]_vars

C12_Witness ==
  \E i \in CallIds :
    /\ Refreshed(i) /\ Landed(i)
    /\ calls[i].got # calls[i].seen /\ calls[i].result = calls[i].seen
    /\ memoryCache[calls[i].key] # NoEntry /\ memoryCache[calls[i].key].data = calls[i].got

Populated(i) == i \in CallIds /\ calls[i].path = "cold" /\ calls[i].fetch = "ok"

\* C13: a call that finds its key in neither tier and whose fetcher succeeds returns the
\* fetcher's value; in the step in which it returns, the memory tier gets that value with
\* the current timestamp and a setItem of the value with that timestamp is issued; unless
\* that setItem fails, the durable tier holds the entry in the end.
C13_ColdMissPopulates ==
  /\ [](\A i \in CallIds :
          Populated(i) => /\ calls[i].outcome = "resolved" /\ calls[i].result = calls[i].got
                          /\ calls[i].got \in Data /\ calls[i].fetches = 1)
  /\ [][\A i \in CallIds :
          /\ (calls[i].pc = "awaitFetch" /\ calls'[i].fetch = "ok")
               => /\ memoryCache'[calls[i].key] = [data |-> calls'[i].result, ts |-> now]
                  /\ storageOps' = Append(storageOps,
                        [op |-> "set", key |-> calls[i].key, call |-> i,
                         entry |-> [data |-> calls'[i].result, ts |-> now]])
          /\ (Populated(i) /\ calls[i].landed = "queued" /\ calls'[i].landed = "landed")
               => storage'[StorageKey(calls[i].key)] = Head(storageOps).entry]_vars
  /\ \A i \in 1 .. MaxCalls : (Populated(i) /\ Writing(i)) ~> (Landed(i) \/ WriteFailed(i))

\* The key was in neither tier, and now both hold the fetched value with the time of
\* the return, after a setItem of another call has failed.
C13_Witness ==
  \E i, j \in CallIds :
    /\ Populated(i) /\ calls[i].cold /\ calls[i].durable = "absent" /\ Landed(i)
    /\ storage[StorageKey(calls[i].key)] = [data |-> calls[i].got, ts |-> now]
    /\ memoryCache[calls[i].key] = [data |-> calls[i].got, ts |-> now]
    /\ WriteFailed(j)

\* C14: two calls for one key, both made while the key is in neither tier, invoke the
\* fetcher once each, so twice in all; each of them whose fetcher succeeds receives a value.
C14_NoSingleFlight ==
  \A i, j \in CallIds :
    (/\ i # j /\ calls[i].key = calls[j].key
     /\ calls[i].cold /\ calls[j].cold
     /\ calls[i].durable # "unread" /\ calls[j].durable # "unread")
      => /\ calls[i].fetches = 1 /\ calls[j].fetches = 1
         /\ fetchCount[calls[i].key] >= 2
         /\ (calls[i].fetch = "ok") => (calls[i].outcome = "resolved" /\ calls[i].result \in Data)

\* Both fetchers were in flight together (neither call has its write served yet, and the
\* second found the memory tier empty) and resolved with different values.
C14_Witness ==
  \E i, j \in CallIds :
    /\ i < j /\ calls[i].key = calls[j].key /\ calls[i].cold /\ calls[j].cold
    /\ calls[i].path = "cold" /\ calls[j].path = "cold"
    /\ calls[i].durable = "absent" /\ calls[j].durable = "absent"
    /\ calls[i].fetch = "ok" /\ calls[j].fetch = "ok"
    /\ calls[i].result \in Data /\ calls[j].result \in Data /\ calls[i].result # calls[j].result
    /\ calls[i].landed = "queued" /\ calls[j].landed = "queued"
    /\ ~calls[i].cleared /\ ~calls[j].cleared
    /\ fetchCount[calls[i].key] = 2

\* C15: when a clearAllCaches has returned while the fetcher of a call was in flight and
\* the fetcher then resolves, that step writes the fetched value into the memory tier and
\* issues its setItem, and the served setItem puts it into the durable tier: the key is
\* cached again after the clear.
C15_FetchAfterClearRepopulates ==
  [][\A i \in CallIds :
       /\ (calls[i].cleared /\ calls[i].fetch = "inflight" /\ calls'[i].fetch = "ok")
            => /\ memoryCache'[calls[i].key] = [data |-> calls'[i].got, ts |-> now]
               /\ calls'[i].got \in Data
               /\ storageOps' = Append(storageOps,
                     [op |-> "set", key |-> calls[i].key, call |-> i,
                      entry |-> [data |-> calls'[i].got, ts |-> now]])
       /\ (calls[i].cleared /\ calls[i].landed = "queued" /\ calls'[i].landed = "landed")
            => storage'[StorageKey(calls[i].key)] = [data |-> calls[i].got,
                                                     ts |-> Head(storageOps).entry.ts]]_vars

\* The clear has removed the stored entry of the key and returned, nothing of it is
\* pending; the memory tier holds the fetched value again and its setItem is waiting.
C15_Witness ==
  \E i \in CallIds :
    /\ calls[i].cleared /\ calls[i].fetch = "ok" /\ calls[i].landed = "queued"
    /\ calls[i].path = "durable" /\ storage[StorageKey(calls[i].key)] = NoEntry
    /\ ~ClearPending
    /\ storageOps = << [op |-> "set", key |-> calls[i].key, call |-> i,
                        entry |-> [data |-> calls[i].got, ts |-> now]] >>
    /\ memoryCache[calls[i].key] = [data |-> calls[i].got, ts |-> now]

MemoryEmpty == \A key \in Keys : memoryCache[key] = NoEntry

\* A clearAllCaches has returned, and no step of cachedApiGet or of its storage requests
\* was taken since it was called.
ClearedAlone == clear.pc = "resolved" /\ clear.row >= 1

\* C16: clearAllCaches empties the memory tier; it hands to multiRemove only keys that
\* start with tf_cache_, and once multiRemove is done no key with that prefix is stored;
\* a key without the prefix keeps its value throughout.
C16_ClearRemovesOnlyCacheKeys ==
  /\ \A k \in AllKeys : ~startsWith(k, CACHE_PREFIX) => storage[k] = ForeignValue
  /\ \A n \in 1 .. Len(storageOps) :
       storageOps[n].op = "multiRemove"
         => \A k \in storageOps[n].keys : startsWith(k, CACHE_PREFIX) /\ k \notin ForeignKeys
  /\ (clear.pc \in {"listing", "removing"} /\ clear.row >= 1) => MemoryEmpty
  /\ (ClearedAlone /\ clear.path = "removed")
       => /\ MemoryEmpty
          /\ \A k \in AllKeys : startsWith(k, CACHE_PREFIX) => storage[k] = NoEntry

\* multiRemove has removed an entry that cachedApiGet had written.
C16_Witness ==
  /\ ClearedAlone /\ clear.path = "removed" /\ MemoryEmpty
  /\ \E i \in CallIds : calls[i].landed = "landed"
  /\ \A key \in Keys : storage[StorageKey(key)] = NoEntry
  /\ \A k \in ForeignKeys : storage[k] = ForeignValue

Cleared == MemoryEmpty /\ \A key \in Keys : storage[StorageKey(key)] = NoEntry

\* C17: clearAllCaches never rejects: a failure of getAllKeys or multiRemove is caught and
\* the call returns; the memory tier is empty when it returns; and when it has run once
\* without a storage failure, the cache is empty and stays as it is through a second run
\* made right after the first, whether or not the store fails in that second run.
C17_ClearAlwaysReturnsIdempotent ==
  /\ clear.pc \in {"idle", "listing", "removing", "resolved"}
  /\ clear.path = "caught" => clear.pc = "resolved"
  /\ ClearedAlone => MemoryEmpty
  /\ (ClearedAlone /\ clear.path \in {"empty", "removed"}) => Cleared
  /\ (clear.row = 2 /\ clear.prev \in {"empty", "removed"}) => Cleared

\* The first run removed cached entries, the second ran into a failing getAllKeys.
C17_Witness ==
  /\ ClearedAlone /\ clear.row = 2 /\ clear.prev = "removed" /\ clear.path = "caught"
  /\ Cleared

\* An entry of the tier that is older than the tier's TTL.
MemoryStale(key) ==
  memoryCache[key] # NoEntry /\ now - memoryCache[key].ts > getMemoryTTL(key)
DurableStale(key) ==
  storage[StorageKey(key)] # NoEntry
    /\ now - storage[StorageKey(key)].ts > getStorageTTL(key)

\* getItem answers call i in this step.
Answered(i) == calls[i].pc = "awaitStorage" /\ calls'[i].pc # "awaitStorage"
                 /\ calls'[i].durable # "failed"

C19_BoundedStaleness ==
  [][/\ \A key \in Keys :
          (Called(key) /\ calls'[Len(calls')].outcome = "resolved")
            => now - fetchedAt[key] <= getStorageTTL(key)
     /\ \A i \in CallIds :
          (calls[i].pc = "awaitStorage" /\ calls'[i].pc = "bgFetch")
            => now - storage[StorageKey(calls[i].key)].ts <= getStorageTTL(calls[i].key)]_vars

(***************************************************************************)
(* Part 2.  The HTTP client: apiGet and apiPost.                           *)
(* A text is the sequence of its characters, so that the tests of          *)
(* shouldRetryError are substring searches.                                *)
(***************************************************************************)
UPPER == <<"A", "B", "C", "D", "E", "F", "G", "H", "I", "J", "K", "L", "M", "N", "O", "P", "Q", "R", "S", "T", "U", "V", "W", "X", "Y", "Z">>
LOWER == <<"a", "b", "c", "d", "e", "f", "g", "h", "i", "j", "k", "l", "m", "n", "o", "p", "q", "r", "s", "t", "u", "v", "w", "x", "y", "z">>

toLowerCase(text) ==
  [n \in 1 .. Len(text) |->
     IF \E k \in 1 .. 26 : UPPER[k] = text[n]
     THEN LOWER[CHOOSE k \in 1 .. 26 : UPPER[k] = text[n]]
     ELSE text[n]]

\* /pattern/i.test(text), for a pattern of lower-case literals
TestI(pattern, text) ==
  LET low == toLowerCase(text)
  IN  \E n \in 1 .. Len(low) - Len(pattern) + 1 :
        SubSeq(low, n, n + Len(pattern) - 1) = pattern

\* A variant that allows a third retry: one more than the two of the program.
MAX_RETRY_ATTEMPTS_Three == 2 + 1

MAX_RETRY_ATTEMPTS == 2
RETRYABLE_STATUS_CODES == {408, 429, 500, 502, 503, 504}
RETRYABLE_ERROR_PATTERNS ==
  { <<"n", "e", "t", "w", "o", "r", "k">>,
    <<"t", "i", "m", "e", "o", "u", "t">>,
    <<"a", "b", "o", "r", "t">>,
    <<"f", "a", "i", "l", "e", "d", " ", "t", "o", " ", "f", "e", "t", "c", "h">> }

\* A variant whose pattern list lacks /abort/i.
shouldRetryError_NoAbort(message) ==
  \E pattern \in RETRYABLE_ERROR_PATTERNS \ { <<"a", "b", "o", "r", "t">> } : TestI(pattern, message)

shouldRetryError(message) ==
  \E pattern \in RETRYABLE_ERROR_PATTERNS : TestI(pattern, message)

\* What fetch rejects with when the timeout aborts it, and when the transport fails.
AbortTexts == { <<"A", "b", "o", "r", "t", "e", "d">> }
TransportTexts ==
  { <<"N", "e", "t", "w", "o", "r", "k", " ", "r", "e", "q", "u", "e", "s", "t", " ", "f", "a", "i", "l", "e", "d">>,
    <<"F", "a", "i", "l", "e", "d", " ", "t", "o", " ", "f", "e", "t", "c", "h">>,
    <<"L", "o", "a", "d", " ", "f", "a", "i", "l", "e", "d">> }

\* Response statuses that are not OK, and the body texts that come with them.
Statuses == {400, 404, 408, 429, 500, 503}
ErrorBodies ==
  { <<>>,
    <<"N", "o", "t", " ", "F", "o", "u", "n", "d">>,
    <<"G", "a", "t", "e", "w", "a", "y", " ", "T", "i", "m", "e", "o", "u", "t">>,
    <<"N", "e", "t", "w", "o", "r", "k", " ", "u", "n", "r", "e", "a", "c", "h", "a", "b", "l", "e">> }

\* The envelope of an OK response, or a body that is no JSON; Undefined for an absent field.
Undefined == <<"undefined">>
EnvelopeTexts ==
  { Undefined,
    <<"U", "n", "k", "n", "o", "w", "n", " ", "a", "c", "t", "i", "o", "n", ":", " ", "x">>,
    <<"T", "a", "s", "k", " ", "n", "o", "t", " ", "f", "o", "u", "n", "d", " ", "f", "o", "r", " ", "A", "n", "a", ":", " ", "N", "e", "t", "w", "o", "r", "k", " ", "s", "e", "t", "u", "p">>,
    <<"L", "o", "c", "k", " ", "t", "i", "m", "e", "o", "u", "t">> }
Envelopes ==
  [success : {TRUE}, data : Data, error : {Undefined}, message : {Undefined}]
  \cup [success : {FALSE}, data : {Null}, error : EnvelopeTexts, message : {Undefined}]
  \cup [success : {FALSE}, data : {Null}, error : {Undefined}, message : EnvelopeTexts]
RawTexts ==
  { <<>>,
    <<"<", "h", "t", "m", "l", ">", "M", "o", "v", "e", "d">>,
    <<"G", "a", "t", "e", "w", "a", "y", " ", "T", "i", "m", "e", "o", "u", "t">> }
\* prefix: the body starts with the anti-hijacking token )]}'
Bodies ==
  [prefix : BOOLEAN, json : {TRUE}, env : Envelopes, text : {<<>>}]
  \cup [prefix : BOOLEAN, json : {FALSE}, env : {Null}, text : RawTexts]

Digit == <<"0", "1", "2", "3", "4", "5", "6", "7", "8", "9">>
StatusText(status) ==
  << Digit[(status \div 100) + 1], Digit[((status \div 10) % 10) + 1], Digit[(status % 10) + 1] >>

\* `HTTP ${response.status}: ${text || fallback}`
HttpErrorText(status, text, fallback) ==
  <<"H", "T", "T", "P", " ">> \o StatusText(status) \o <<":", " ">> \o (IF text = <<>> THEN fallback ELSE text)

RequestFailedText(kind) == IF kind = "get" THEN <<"R", "e", "q", "u", "e", "s", "t", " ", "f", "a", "i", "l", "e", "d">> ELSE <<"S", "u", "b", "m", "i", "t", " ", "f", "a", "i", "l", "e", "d">>
UnknownErrorText(kind)  == IF kind = "get" THEN <<"U", "n", "k", "n", "o", "w", "n", " ", "A", "P", "I", " ", "e", "r", "r", "o", "r">> ELSE <<"S", "u", "b", "m", "i", "t", " ", "f", "a", "i", "l", "e", "d">>
FailurePrefix(kind)     == IF kind = "get" THEN <<"R", "e", "q", "u", "e", "s", "t", " ", "f", "a", "i", "l", "e", "d", ":", " ">> ELSE <<"S", "u", "b", "m", "i", "t", " ", "f", "a", "i", "l", "e", "d", ":", " ">>
InvalidFormatText == <<"I", "n", "v", "a", "l", "i", "d", " ", "A", "P", "I", " ", "r", "e", "s", "p", "o", "n", "s", "e", " ", "f", "o", "r", "m", "a", "t">>
SyntaxErrorText   == <<"U", "n", "e", "x", "p", "e", "c", "t", "e", "d", " ", "t", "o", "k", "e", "n">>

\* parseApiResponse: [ok, env] on success, [ok |-> FALSE, text] when it throws.
\* response.json() rejects anything but plain JSON with a SyntaxError;
\* tryParseResponseText strips the prefix and throws the text it could not parse.
parseApiResponse(ctJson, body) ==
  IF ctJson
  THEN IF body.json /\ ~body.prefix
       THEN [ok |-> TRUE, env |-> body.env, text |-> <<>>]
       ELSE [ok |-> FALSE, env |-> Null, text |-> SyntaxErrorText]
  ELSE IF body.json
       THEN [ok |-> TRUE, env |-> body.env, text |-> <<>>]
       ELSE [ok |-> FALSE, env |-> Null,
             text |-> IF body.text = <<>> THEN InvalidFormatText ELSE body.text]

\* json.error ?? json.message ?? fallback
EnvelopeErrorText(env, kind) ==
  IF env.error # Undefined THEN env.error
  ELSE IF env.message # Undefined THEN env.message
  ELSE UnknownErrorText(kind)

\* A variant with one timer for the whole call, armed before the first attempt.
Attempt_SharedTimer(n) ==
  /\ attempt' = n
  /\ timers' = IF n = 0 THEN {0} ELSE timers
  /\ requests' = requests + 1
  /\ apiPc' = "fetching"

\* One more turn of the for loop: a fresh timeout controller and a request.
Attempt(n) ==
  /\ attempt' = n
  /\ timers' = timers \cup {n}
  /\ requests' = requests + 1
  /\ apiPc' = "fetching"

\* The catch block: timeout.cancel(), then retry after a delay or throw.
\* (cls, status) is what the attempt ended with, kept as history.
Catch(message, cls, status) ==
  /\ timers' = timers \ {attempt}
  /\ outcomes' = Append(outcomes, [cls |-> cls, status |-> status])
  /\ lastText' = message
  /\ IF attempt < MAX_RETRY_ATTEMPTS /\ shouldRetryError(message)
     THEN /\ apiPc' = "sleeping"
          /\ apiError' = apiError
     ELSE /\ apiPc' = "rejected"
          /\ apiError' = FailurePrefix(apiKind) \o message
  /\ UNCHANGED <<cacheVars, lbVars, submitVars, apiKind, attempt, requests, apiData>>

\* apiGet / apiPost up to the first fetch. getScriptUrl() never answers "": the
\* default URL is a non-empty constant.
ApiCall(kind) ==
  /\ apiPc = "idle"
  /\ apiKind' = kind
  /\ Attempt(0)
  /\ UNCHANGED <<cacheVars, lbVars, submitVars, outcomes, lastText, apiError, apiData>>

\* The timer of the attempt fires: controller.abort() makes fetch reject.
TimeoutFires(message) ==
  /\ apiPc = "fetching"
  /\ attempt \in timers
  /\ Catch(message, "timeout", 0)

\* fetch rejects on its own.
FetchThrows(message) ==
  /\ apiPc = "fetching"
  /\ Catch(message, "transport", 0)

\* fetch answers with a status that is not OK.
ResponseNotOk(status, text) ==
  /\ apiPc = "fetching"
  /\ IF status \in RETRYABLE_STATUS_CODES /\ attempt < MAX_RETRY_ATTEMPTS
     THEN /\ timers' = timers \ {attempt}
          /\ outcomes' = Append(outcomes, [cls |-> "http", status |-> status])
          /\ lastText' = text
          /\ apiPc' = "sleeping"
          /\ UNCHANGED <<cacheVars, lbVars, submitVars, apiKind, attempt, requests, apiError, apiData>>
     ELSE Catch(HttpErrorText(status, text, RequestFailedText(apiKind)), "http", status)

\* fetch answers with an OK status.
ResponseOk(ctJson, body) ==
  /\ apiPc = "fetching"
  /\ LET parsed == parseApiResponse(ctJson, body)
     IN  IF ~parsed.ok
         THEN Catch(parsed.text, "malformed", 200)
         ELSE IF ~parsed.env.success
         THEN Catch(EnvelopeErrorText(parsed.env, apiKind), "envelope", 200)
         ELSE /\ timers' = timers \ {attempt}
              /\ outcomes' = Append(outcomes, [cls |-> "ok", status |-> 200])
              /\ apiPc' = "resolved"
              /\ apiData' = parsed.env.data
              /\ UNCHANGED <<cacheVars, lbVars, submitVars, apiKind, attempt, requests, lastText, apiError>>

\* The delay before a retry is over.
SleepDone ==
  /\ apiPc = "sleeping"
  /\ Attempt(attempt + 1)
  /\ UNCHANGED <<cacheVars, lbVars, submitVars, apiKind, outcomes, lastText, apiError, apiData>>

NextApi ==
     \/ \E kind \in {"get", "post"} : ApiCall(kind)
     \/ \E message \in AbortTexts : TimeoutFires(message)
     \/ \E message \in TransportTexts : FetchThrows(message)
     \/ \E status \in Statuses, text \in ErrorBodies : ResponseNotOk(status, text)
     \/ \E ctJson \in BOOLEAN, body \in Bodies : ResponseOk(ctJson, body)
     \/ SleepDone

SpecApi == Init /\ [][NextApi]_vars

\* The fetch of the attempt under way settles: it is answered, fails, or is aborted by
\* the timer of the attempt.
Settles ==
     \/ \E message \in AbortTexts : TimeoutFires(message)
     \/ \E message \in TransportTexts : FetchThrows(message)
     \/ \E status \in Statuses, text \in ErrorBodies : ResponseNotOk(status, text)
     \/ \E ctJson \in BOOLEAN, body \in Bodies : ResponseOk(ctJson, body)

\* Every attempt gets an outcome and every delay ends.
SpecApiLive == SpecApi /\ WF_vars(Settles) /\ WF_vars(SleepDone)

(***************************************************************************)
(* Claims about the HTTP client, checked under SpecApi.                    *)
(***************************************************************************)
Attempts == 1 .. Len(outcomes)
AllTimeouts == \A n \in Attempts : outcomes[n].cls = "timeout"

\* C5: an apiGet whose every attempt is aborted by its timeout makes exactly 3 requests
\* and then rejects with the abort as its failure; it never stops before the third
\* request and never makes a fourth.
C5_RetryCeiling ==
  (apiKind = "get" /\ outcomes # <<>> /\ AllTimeouts) =>
    /\ requests <= 3
    /\ apiPc \in {"sleeping", "fetching", "rejected"}
    /\ apiPc = "rejected" <=> Len(outcomes) = 3
    /\ apiPc = "rejected" =>
         /\ requests = 3
         /\ apiError = <<"R", "e", "q", "u", "e", "s", "t", " ", "f", "a", "i", "l", "e", "d", ":", " ">> \o lastText
         /\ lastText \in AbortTexts

C5_Witness ==
  /\ apiKind = "get" /\ apiPc = "rejected" /\ AllTimeouts
  /\ Len(outcomes) = 3 /\ requests = 3 /\ timers = {}

\* C6: an attempt answered by an envelope with success = false is the last one, whatever
\* text the envelope carries: the call rejects and no further request is made.
C6_EnvelopeFailureNeverRetried ==
  \A n \in Attempts :
    outcomes[n].cls = "envelope" => (apiPc = "rejected" /\ requests = n)

\* C7: an attempt of apiGet answered with a status that is neither OK nor retryable is the
\* last one, whatever the body text: the call rejects and no further request is made.
C7_TerminalStatusNeverRetried ==
  \A n \in Attempts :
    (apiKind = "get" /\ outcomes[n].cls = "http"
       /\ outcomes[n].status \notin RETRYABLE_STATUS_CODES)
      => (apiPc = "rejected" /\ requests = n)

\* C8: an attempt of apiGet answered with an OK status and a body that is no JSON envelope
\* is the last one, whatever the body text: the call rejects and no further request is made.
C8_MalformedBodyNeverRetried ==
  \A n \in Attempts :
    (apiKind = "get" /\ outcomes[n].cls = "malformed")
      => (apiPc = "rejected" /\ requests = n)

(***************************************************************************)
(* Part 3.  The leaderboard of the Apps Script back end.                   *)
(* The sheets are read one row per step; a cell is a text (a sequence of   *)
(* characters) or, in the hours column, a number or a text. Hours are      *)
(* counted in whole units.                                                 *)
(***************************************************************************)
NameCells == { <<>>, <<" ">>, <<" ", "A", "n", "a", " ">>, <<"B", "o">> }
RigCells  == { <<>>, <<" ", "R", "7">>, <<"7">>, <<"1", "0">> }
SiteCells == { <<>>, <<"S", "F", "-", "L", "a", "b">>, <<"M", "X", "-", "1">>, <<"s", "f", "2">> }
HourCells == [num : {TRUE}, v : {-1, 0, 1, 2}] \cup [num : {FALSE}, v : {0}]
Rosters ==
  { <<>>,
    << [name |-> <<"A", "n", "a">>, rig |-> <<"R", "7", " ">>] >>,
    << [name |-> <<"B", "o">>, rig |-> <<"R", "7">>], [name |-> <<"A", "n", "a">>, rig |-> <<"R", "7">>], [name |-> <<"B", "o">>, rig |-> <<>>] >> }

RECURSIVE trimStart(_)
trimStart(text) ==
  IF text # <<>> /\ Head(text) = " " THEN trimStart(Tail(text)) ELSE text

RECURSIVE trimEnd(_)
trimEnd(text) ==
  IF text # <<>> /\ text[Len(text)] = " "
  THEN trimEnd(SubSeq(text, 1, Len(text) - 1)) ELSE text

\* String(cell || '').trim()
trim(text) == trimEnd(trimStart(text))

toUpperCase(text) ==
  [n \in 1 .. Len(text) |->
     IF \E k \in 1 .. 26 : LOWER[k] = text[n]
     THEN UPPER[CHOOSE k \in 1 .. 26 : LOWER[k] = text[n]]
     ELSE text[n]]

\* text.indexOf(needle) >= 0
Includes(text, needle) ==
  \E n \in 1 .. Len(text) - Len(needle) + 1 :
    SubSeq(text, n, n + Len(needle) - 1) = needle

\* parseFloat(cell) || 0
parseHours(cell) == IF cell.num THEN cell.v ELSE 0

Max(a, b) == IF a >= b THEN a ELSE b

\* buildRigToNameMap: a later roster row overwrites an earlier one with the same rig.
RECURSIVE buildRigToNameMap(_, _)
\* A variant that keeps the first name listed for a rig.
RECURSIVE buildRigToNameMap_FirstSeenWins(_, _)
buildRigToNameMap_FirstSeenWins(sheetRows, map) ==
  IF sheetRows = <<>> THEN map
  ELSE LET name == trim(Head(sheetRows).name)
           rig  == trim(Head(sheetRows).rig)
       IN  buildRigToNameMap_FirstSeenWins(Tail(sheetRows),
             IF name # <<>> /\ rig # <<>> /\ rig \notin DOMAIN map
             THEN [r \in DOMAIN map \cup {rig} |-> IF r = rig THEN name ELSE map[r]]
             ELSE map)

buildRigToNameMap(sheetRows, map) ==
  IF sheetRows = <<>> THEN map
  ELSE LET name == trim(Head(sheetRows).name)
           rig  == trim(Head(sheetRows).rig)
       IN  buildRigToNameMap(Tail(sheetRows),
             IF name # <<>> /\ rig # <<>>
             THEN [r \in DOMAIN map \cup {rig} |-> IF r = rig THEN name ELSE map[r]]
             ELSE map)

\* A variant that asks the rig map before the name cell.
collectorName_RigFirst(nameCell, rigCell) ==
  LET name == trim(nameCell)
      rig  == trim(rigCell)
  IN  IF rig \in DOMAIN rigToName THEN rigToName[rig]
      ELSE IF name # <<>> THEN name
      ELSE rig

\* nameCell || rigToName[rigOrName] || rigOrName; <<>> when all three are empty
collectorName(nameCell, rigCell) ==
  LET name == trim(nameCell)
      rig  == trim(rigCell)
  IN  IF name # <<>> THEN name
      ELSE IF rig \in DOMAIN rigToName THEN rigToName[rig]
      ELSE rig

\* Which operand of nameCell || rigToName[rigOrName] || rigOrName gave the identity.
routeOf(nameCell, rigCell) ==
  IF trim(nameCell) # <<>> THEN "name"
  ELSE IF trim(rigCell) \in DOMAIN rigToName THEN "rig"
  ELSE "raw"

\* site.toUpperCase().indexOf('SF') >= 0 ? 'SF' : 'MX'
regionOf(siteCell) ==
  IF Includes(toUpperCase(trim(siteCell)), <<"S", "F">>) THEN "SF" ELSE "MX"

Put(map, key, value) == [k \in DOMAIN map \cup {key} |-> IF k = key THEN value ELSE map[k]]
Noted(history, key, value) ==
  Put(history, key,
      IF key \in DOMAIN history
      THEN [sum |-> history[key].sum + value, max |-> Max(history[key].max, value),
            n |-> history[key].n + 1]
      ELSE [sum |-> value, max |-> value, n |-> 1])

\* A variant in which the site of the latest row decides the region.
FoldPrimary_LastSiteWins(map, name, region, hours) ==
  LET old == IF name \in DOMAIN map THEN map[name]
             ELSE [name |-> name, region |-> region, hours |-> 0, tasks |-> 0, assigned |-> 0]
  IN  Put(map, name,
          [old EXCEPT !.hours = @ + hours, !.tasks = @ + 1, !.assigned = @ + 1,
                      !.region = region])

\* A variant that keeps the hours of the latest row only.
FoldPrimary_Overwrites(map, name, region, hours) ==
  LET old == IF name \in DOMAIN map THEN map[name]
             ELSE [name |-> name, region |-> region, hours |-> 0, tasks |-> 0, assigned |-> 0]
  IN  Put(map, name,
          [old EXCEPT !.hours = hours, !.tasks = @ + 1, !.assigned = @ + 1,
                      !.region = IF @ = "MX" THEN region ELSE @])

\* A variant that counts a collector as assigned once, with the first row.
FoldPrimary_AssignsOnce(map, name, region, hours) ==
  LET old == IF name \in DOMAIN map THEN map[name]
             ELSE [name |-> name, region |-> region, hours |-> 0, tasks |-> 0, assigned |-> 0]
  IN  Put(map, name,
          [old EXCEPT !.hours = @ + hours, !.tasks = @ + 1,
                      !.assigned = IF name \in DOMAIN map THEN @ ELSE 1,
                      !.region = IF @ = "MX" THEN region ELSE @])

\* One CA_TAGGED row folded into the aggregate map.
FoldPrimary(map, name, region, hours) ==
  LET old == IF name \in DOMAIN map THEN map[name]
             ELSE [name |-> name, region |-> region, hours |-> 0, tasks |-> 0, assigned |-> 0]
  IN  Put(map, name,
          [old EXCEPT !.hours = @ + hours, !.tasks = @ + 1, !.assigned = @ + 1,
                      !.region = IF @ = "MX" THEN region ELSE @])

\* A variant that adds a log row to the aggregate it finds.
MergeSecondary_Adds(agg, logHours) ==
  [agg EXCEPT !.hours = @ + logHours, !.tasks = @ + 1, !.assigned = @ + 1]

\* A log row whose collector already has an aggregate:
\* hours = Math.max(hours, hours) when logHours > 0.
MergeSecondary(agg, logHours) ==
  IF logHours > 0 THEN [agg EXCEPT !.hours = Max(agg.hours, agg.hours)] ELSE agg

\* A variant that gives a log row without a name an aggregate of its own.
FoldSecondary_KeepsBlank(map, logName, logHours) ==
  IF logName \in DOMAIN map
  THEN Put(map, logName, MergeSecondary(map[logName], logHours))
  ELSE Put(map, logName,
           [name |-> logName, region |-> "MX", hours |-> logHours, tasks |-> 1, assigned |-> 1])

\* A variant that seeds a new aggregate without the hours of its log row.
FoldSecondary_SeedsNoHours(map, logName, logHours) ==
  IF logName # <<>> /\ logName \in DOMAIN map
  THEN Put(map, logName, MergeSecondary(map[logName], logHours))
  ELSE IF logName # <<>>
  THEN Put(map, logName,
           [name |-> logName, region |-> "MX", hours |-> 0, tasks |-> 1, assigned |-> 1])
  ELSE map

\* One row of the assignments log folded into the aggregate map.
FoldSecondary(map, logName, logHours) ==
  IF logName # <<>> /\ logName \in DOMAIN map
  THEN Put(map, logName, MergeSecondary(map[logName], logHours))
  ELSE IF logName # <<>>
  THEN Put(map, logName,
           [name |-> logName, region |-> "MX", hours |-> logHours, tasks |-> 1, assigned |-> 1])
  ELSE map

\* A property key that is a canonical array index: decimal digits without a leading zero.
IsArrayIndex(text) ==
  /\ text # <<>>
  /\ \A n \in 1 .. Len(text) : \E k \in 1 .. 10 : Digit[k] = text[n]
  /\ (Len(text) = 1 \/ text[1] # "0")

RECURSIVE ToNumber(_)
ToNumber(text) ==
  IF text = <<>> THEN 0
  ELSE 10 * ToNumber(SubSeq(text, 1, Len(text) - 1))
         + ((CHOOSE k \in 1 .. 10 : Digit[k] = text[Len(text)]) - 1)

RECURSIVE Ascending(_)
Ascending(keys) ==
  IF keys = {} THEN <<>>
  ELSE LET least == CHOOSE k \in keys : \A j \in keys : ToNumber(k) <= ToNumber(j)
       IN  <<least>> \o Ascending(keys \ {least})

IsName(text) == ~IsArrayIndex(text)

\* A variant that lists the keys in the order in which they were created.
ObjectKeys_CreationOrder(created) == created

\* Object.keys(collectors): the array-index keys in ascending numeric order, then the
\* other keys in the order in which they were created.
ObjectKeys(created) ==
  Ascending({ created[n] : n \in { m \in 1 .. Len(created) : IsArrayIndex(created[m]) } })
    \o SelectSeq(created, IsName)

\* entries.sort(function(a, b) { return b.hours - a.hours; }): stable, descending.
\* A variant that sorts the entries by ascending hours.
RECURSIVE InsertByHours_Ascending(_, _)
InsertByHours_Ascending(sorted, e) ==
  IF sorted = <<>> THEN <<e>>
  ELSE IF Head(sorted).hours <= e.hours
       THEN <<Head(sorted)>> \o InsertByHours_Ascending(Tail(sorted), e)
       ELSE <<e>> \o sorted

RECURSIVE InsertByHours(_, _)
InsertByHours(sorted, e) ==
  IF sorted = <<>> THEN <<e>>
  ELSE IF Head(sorted).hours >= e.hours
       THEN <<Head(sorted)>> \o InsertByHours(Tail(sorted), e)
       ELSE <<e>> \o sorted

RECURSIVE SortByHours(_)
SortByHours(entries) ==
  IF entries = <<>> THEN <<>>
  ELSE InsertByHours(SortByHours(SubSeq(entries, 1, Len(entries) - 1)), entries[Len(entries)])

\* A variant that cuts the fraction off.
completionRate_Truncates(e) ==
  IF e.assigned > 0 THEN (100 * e.tasks) \div e.assigned ELSE 0

\* Math.round((tasks / assigned) * 100) for counts >= 0
completionRate(e) ==
  IF e.assigned > 0 THEN (200 * e.tasks + e.assigned) \div (2 * e.assigned) ELSE 0

Ranked(map, keys) ==
  LET sorted == SortByHours([n \in 1 .. Len(keys) |-> map[keys[n]]])
  IN  [idx \in 1 .. Len(sorted) |->
         [rank |-> idx, collectorName |-> sorted[idx].name, hoursLogged |-> sorted[idx].hours,
          tasksCompleted |-> sorted[idx].tasks, tasksAssigned |-> sorted[idx].assigned,
          completionRate |-> completionRate(sorted[idx]), region |-> sorted[idx].region]]

\* handleGetLeaderboard up to the first loop; without a CA_TAGGED sheet it returns [].
\* The back end's clock moves in steps of five minutes, between requests.
ServerTickMs == 5 * 60 * 1000
APP_CACHE_TTL == 15 * 60 * 1000

\* A variant that answers the cached value whatever its age.
readCache_IgnoresAge ==
  IF appCache = NoEntry THEN [hit |-> FALSE] ELSE [hit |-> TRUE, value |-> appCache.value]

\* readCache('leaderboard'): null (no hit) without a row for the key or with one older
\* than 15 minutes, else the value of the row. The cell holds the JSON text of an array
\* of entries, which JSON.parse gives back as written.
readCache ==
  IF appCache = NoEntry THEN [hit |-> FALSE]
  ELSE IF clock - appCache.ts > APP_CACHE_TTL THEN [hit |-> FALSE]
  ELSE [hit |-> TRUE, value |-> appCache.value]

\* writeCache('leaderboard', value): the row is overwritten or appended with Date.now().
\* Errors of the spreadsheet service are swallowed: the write may fail as a whole, or
\* between the setValue of the value and the setValue of the timestamp of a row that exists.
WriteOutcomes == {"ok", "failed", "partial"}
writeCache(value, written) ==
  IF written = "ok" THEN [value |-> value, ts |-> clock]
  ELSE IF written = "partial" /\ appCache # NoEntry THEN [value |-> value, ts |-> appCache.ts]
  ELSE appCache

\* handleGetLeaderboard up to its first loop: the cached leaderboard if readCache has
\* one (an array, empty or not, is truthy), [] without the sheet CA_TAGGED, else the
\* rig map is built.
LbStart(hasSheet, sheetRows) ==
  /\ lbPc = "idle"
  /\ IF readCache.hit
     THEN /\ lbPc' = "done"
          /\ result' = readCache.value
          /\ lbFrom' = "cache"
          /\ rigToName' = rigToName
          /\ roster' = roster
     ELSE IF hasSheet
     THEN /\ lbPc' = "pass1"
          /\ result' = result
          /\ lbFrom' = "sheets"
          /\ rigToName' = buildRigToNameMap(sheetRows, <<>>)
          /\ roster' = sheetRows
     ELSE /\ lbPc' = "done"
          /\ result' = <<>>
          /\ lbFrom' = "nosheet"
          /\ rigToName' = rigToName
          /\ roster' = roster
  /\ UNCHANGED <<cacheVars, apiVars, submitVars, collectors, order, caRows, logRows,
                 primaryHours, secondaryHours, lastRegion, row, routes, appCache, clock>>

\* One turn of the loop over CA_TAGGED.
PrimaryRow(nameCell, rigCell, siteCell, hourCell) ==
  /\ lbPc = "pass1"
  /\ caRows < MaxCaRows
  /\ caRows' = caRows + 1
  /\ LET name == collectorName(nameCell, rigCell)
     IN  IF name = <<>>
         THEN UNCHANGED <<collectors, order, primaryHours, lastRegion, routes>>
         ELSE /\ collectors' = FoldPrimary(collectors, name, regionOf(siteCell), parseHours(hourCell))
              /\ order' = IF name \in DOMAIN collectors THEN order ELSE Append(order, name)
              /\ primaryHours' = Noted(primaryHours, name, parseHours(hourCell))
              /\ lastRegion' = Put(lastRegion, name, regionOf(siteCell))
              /\ routes' = Put(routes, name,
                              (IF name \in DOMAIN routes THEN routes[name] ELSE {})
                                \cup {routeOf(nameCell, rigCell)})
  /\ row' = [src |-> "ca", name |-> nameCell, rig |-> rigCell,
             who |-> collectorName(nameCell, rigCell), hours |-> parseHours(hourCell)]
  /\ roster' = <<>>
  /\ UNCHANGED <<cacheVars, apiVars, submitVars, lbPc, rigToName, logRows, secondaryHours, result,
                 appCache, clock, lbFrom>>

\* CA_TAGGED is exhausted: on to the assignments log when that sheet exists,
\* else sort, rank and return.
PrimaryDone(hasLog, written) ==
  /\ lbPc = "pass1"
  /\ IF hasLog
     THEN lbPc' = "pass2" /\ result' = result /\ appCache' = appCache /\ written = "ok"
     ELSE /\ lbPc' = "done"
          /\ result' = Ranked(collectors, ObjectKeys(order))
          /\ appCache' = writeCache(Ranked(collectors, ObjectKeys(order)), written)
  /\ roster' = <<>>
  /\ UNCHANGED <<cacheVars, apiVars, submitVars, rigToName, collectors, order, caRows, logRows,
                 primaryHours, secondaryHours, lastRegion, row, routes, clock, lbFrom>>

\* One turn of the loop over the assignments log.
SecondaryRow(nameCell, hourCell) ==
  /\ lbPc = "pass2"
  /\ logRows < MaxLogRows
  /\ logRows' = logRows + 1
  /\ LET logName == trim(nameCell)
     IN  /\ collectors' = FoldSecondary(collectors, logName, parseHours(hourCell))
         /\ order' = IF logName = <<>> \/ logName \in DOMAIN collectors
                     THEN order ELSE Append(order, logName)
         /\ secondaryHours' = IF logName = <<>> THEN secondaryHours
                              ELSE Noted(secondaryHours, logName, parseHours(hourCell))
  /\ row' = [src |-> "log", name |-> nameCell, rig |-> <<>>,
             who |-> trim(nameCell), hours |-> parseHours(hourCell)]
  /\ UNCHANGED <<cacheVars, apiVars, submitVars, lbPc, rigToName, roster, caRows, primaryHours,
                 lastRegion, routes, result, appCache, clock, lbFrom>>

\* The assignments log is exhausted: sort, rank and return.
SecondaryDone(written) ==
  /\ lbPc = "pass2"
  /\ result' = Ranked(collectors, ObjectKeys(order))
  /\ appCache' = writeCache(Ranked(collectors, ObjectKeys(order)), written)
  /\ lbPc' = "done"
  /\ UNCHANGED <<cacheVars, apiVars, submitVars, rigToName, roster, collectors, order, caRows, logRows,
                 primaryHours, secondaryHours, lastRegion, row, routes, clock, lbFrom>>

\* The request is answered; the next one starts with fresh locals. The sheets and the
\* clock are all that lasts from one execution of the script to the next.
LbReturn ==
  /\ lbPc = "done"
  /\ lbPc' = "idle" /\ rigToName' = <<>> /\ roster' = <<>> /\ collectors' = <<>> /\ order' = <<>>
  /\ caRows' = 0 /\ logRows' = 0 /\ primaryHours' = <<>> /\ secondaryHours' = <<>>
  /\ lastRegion' = <<>> /\ row' = NoRow /\ routes' = <<>> /\ result' = <<>>
  /\ lbFrom' = "none"
  /\ UNCHANGED <<cacheVars, apiVars, submitVars, appCache, clock>>

\* Time passes on the back end.
ServerTick ==
  /\ lbPc = "idle"
  /\ clock < MaxServerTicks * ServerTickMs
  /\ clock' = clock + ServerTickMs
  /\ UNCHANGED <<cacheVars, apiVars, submitVars, lbPc, rigToName, roster, collectors, order, caRows,
                 logRows, primaryHours, secondaryHours, lastRegion, row, routes, result,
                 appCache, lbFrom>>

NextBoard ==
     \/ \E hasSheet \in BOOLEAN, sheetRows \in Rosters : LbStart(hasSheet, sheetRows)
     \/ \E nameCell \in NameCells, rigCell \in RigCells, siteCell \in SiteCells,
           hourCell \in HourCells : PrimaryRow(nameCell, rigCell, siteCell, hourCell)
     \/ \E hasLog \in BOOLEAN : PrimaryDone(hasLog, "ok")
     \/ \E nameCell \in NameCells, hourCell \in HourCells :
           SecondaryRow(nameCell, hourCell)
     \/ SecondaryDone("ok")

\* One request over an empty _AppCache whose write succeeds.
SpecBoard == Init /\ [][NextBoard]_vars

\* Request after request as time passes, over sheets whose rows may change between
\* requests and an _AppCache whose writes may fail.
CachedNames == { <<"B", "o">>, <<" ", "A", "n", "a", " ">> }
CachedHours == [num : {TRUE}, v : {1, 2}]
NextAppCache ==
     \/ \E hasSheet \in BOOLEAN : LbStart(hasSheet, <<>>)
     \/ \E nameCell \in CachedNames, hourCell \in CachedHours :
           PrimaryRow(nameCell, <<>>, <<>>, hourCell)
     \/ \E hasLog \in BOOLEAN, written \in WriteOutcomes : PrimaryDone(hasLog, written)
     \/ \E nameCell \in CachedNames, hourCell \in CachedHours :
           SecondaryRow(nameCell, hourCell)
     \/ \E written \in WriteOutcomes : SecondaryDone(written)
     \/ LbReturn
     \/ ServerTick

SpecAppCache == Init /\ [][NextAppCache]_vars

\* buildRigToNameMap alone, over every 'Collectors' sheet of at most MaxRoster rows.
RosterNames == { <<>>, <<" ">>, <<"A", "n", "a">>, <<" ", "B", "o">> }
RosterRigs  == { <<>>, <<"R", "7">>, <<"R", "7", " ">>, <<"R", "8">> }
RosterRows  == [name : RosterNames, rig : RosterRigs]
RosterInputs == UNION { [1 .. n -> RosterRows] : n \in 0 .. MaxRoster }

NextRigMap == \E sheetRows \in RosterInputs : LbStart(TRUE, sheetRows)

SpecRigMap == Init /\ [][NextRigMap]_vars

(***************************************************************************)
(* Claims about the leaderboard, checked under SpecBoard.                  *)
(***************************************************************************)
InBothSources(name) == name \in DOMAIN primaryHours /\ name \in DOMAIN secondaryHours

\* C2: in the leaderboard returned, a collector found in CA_TAGGED and in the assignments
\* log has hoursLogged at least the larger of its CA_TAGGED total and its log hours.
C2_HoursAtLeastLargerSource ==
  lbPc = "done" =>
    \A idx \in 1 .. Len(result) :
      LET name == result[idx].collectorName
      IN  InBothSources(name) =>
            result[idx].hoursLogged >= Max(primaryHours[name].sum, secondaryHours[name].max)

\* The hours of the log row just folded, when it carries the name.
LogRowHours(name) ==
  IF name \in DOMAIN secondaryHours'
  THEN secondaryHours'[name].sum
         - (IF name \in DOMAIN secondaryHours THEN secondaryHours[name].sum ELSE 0)
  ELSE 0

\* C3: for a collector with positive hours in both sources, hoursLogged is never the
\* CA_TAGGED total plus the log hours; and a log row never adds its hours, or a task, to an
\* aggregate that exists when the row is folded.
C3_NeverSummed ==
  /\ [](lbPc = "done" =>
         \A idx \in 1 .. Len(result) :
           LET name == result[idx].collectorName
           IN  (InBothSources(name) /\ primaryHours[name].sum > 0
                  /\ secondaryHours[name].max > 0 /\ secondaryHours[name].sum > 0)
                 => /\ result[idx].hoursLogged
                         # primaryHours[name].sum + secondaryHours[name].sum
                    /\ result[idx].hoursLogged
                         # primaryHours[name].sum + secondaryHours[name].max)
  /\ [][logRows' = logRows + 1 =>
         \A name \in DOMAIN collectors :
           /\ collectors'[name].tasks = collectors[name].tasks
           /\ collectors'[name].assigned = collectors[name].assigned
           /\ LogRowHours(name) > 0
                => collectors'[name].hours # collectors[name].hours + LogRowHours(name)]_vars

C3_Witness ==
  /\ lbPc = "done"
  /\ \E idx \in 1 .. Len(result) :
       LET name == result[idx].collectorName
       IN  /\ InBothSources(name)
           /\ primaryHours[name].sum > 0 /\ secondaryHours[name].max > 0
           /\ result[idx].hoursLogged = primaryHours[name].sum
           /\ result[idx].tasksCompleted = caRows

\* C20: once the region of an aggregate is SF, no row folded later, from CA_TAGGED or from
\* the assignments log and whatever its site, changes it: an aggregate stays in the map,
\* its region is SF or MX, and it goes from MX to SF at most, never from SF to MX.
C20_StickySF ==
  /\ [](\A name \in DOMAIN collectors : collectors[name].region \in {"SF", "MX"})
  /\ [][\A name \in DOMAIN collectors :
          /\ name \in DOMAIN collectors'
          /\ collectors[name].region = "SF" => collectors'[name].region = "SF"]_vars

\* An aggregate that is SF although the latest CA_TAGGED row folded into it has an MX
\* site, with a log row of its name folded after that.
C20_Witness ==
  \E name \in DOMAIN collectors :
    /\ collectors[name].region = "SF" /\ collectors[name].tasks = 2
    /\ lastRegion[name] = "MX"
    /\ name \in DOMAIN secondaryHours
    /\ lbPc = "done"
    /\ \E idx \in 1 .. Len(result) :
         result[idx].collectorName = name /\ result[idx].region = "SF"

\* C21: a CA_TAGGED row resolves to its trimmed name cell when that is not empty, whatever
\* the rig map holds for its rig; else to the map's name for its trimmed rig cell when the
\* map knows that rig; else to the trimmed rig cell itself; it resolves to nothing only
\* when name cell and rig cell are both empty after trimming. The aggregate of the name it
\* resolves to is the one the row is folded into.
C21_IdentityPrecedence ==
  row.src = "ca" =>
    LET name == trim(row.name)
        rig  == trim(row.rig)
    IN  /\ name # <<>> => row.who = name
        /\ (name = <<>> /\ rig \in DOMAIN rigToName) => row.who = rigToName[rig]
        /\ (name = <<>> /\ rig \notin DOMAIN rigToName) => row.who = rig
        /\ row.who = <<>> <=> (name = <<>> /\ rig = <<>>)
        /\ row.who # <<>> => (row.who \in DOMAIN collectors /\ collectors[row.who].tasks >= 1)

\* A row with a name cell whose rig the map gives to someone else.
C21_Witness ==
  /\ row.src = "ca" /\ trim(row.name) # <<>>
  /\ trim(row.rig) \in DOMAIN rigToName
  /\ rigToName[trim(row.rig)] # trim(row.name)
  /\ row.who = trim(row.name)
  /\ rigToName[trim(row.rig)] \notin DOMAIN collectors

\* The entries of the leaderboard returned that carry the name.
EntriesOf(name) == { idx \in 1 .. Len(result) : result[idx].collectorName = name }

\* C22: the CA_TAGGED rows that resolve to one name, by whatever route, are folded into one
\* aggregate: its hours are the sum of the hours of those rows, its tasks their number;
\* the leaderboard returned has one entry for each aggregate, with the aggregate's hours,
\* tasks and region.
C22_OneAggregatePerName ==
  /\ \A name \in DOMAIN primaryHours :
       /\ name \in DOMAIN collectors
       /\ collectors[name].name = name
       /\ collectors[name].hours = primaryHours[name].sum
       /\ collectors[name].tasks = primaryHours[name].n
  /\ lbPc = "done" =>
       /\ Len(result) = Cardinality(DOMAIN collectors)
       /\ \A name \in DOMAIN collectors :
            /\ Cardinality(EntriesOf(name)) = 1
            /\ \A idx \in EntriesOf(name) :
                 /\ result[idx].hoursLogged = collectors[name].hours
                 /\ result[idx].tasksCompleted = collectors[name].tasks
                 /\ result[idx].region = collectors[name].region

\* Ana by name at an SF site with 2 hours, then rig R7 (Ana's in the roster) at an MX site
\* with 1 hour, no log: one entry, 3 hours, 2 tasks, SF, rank 1, rate 100.
C22_Witness ==
  /\ lbPc = "done" /\ logRows = 0 /\ Len(result) = 1
  /\ result[1] = [rank |-> 1, collectorName |-> <<"A", "n", "a">>, hoursLogged |-> 3,
                  tasksCompleted |-> 2, tasksAssigned |-> 2, completionRate |-> 100,
                  region |-> "SF"]
  /\ routes[<<"A", "n", "a">>] = {"name", "rig"}
  /\ lastRegion[<<"A", "n", "a">>] = "MX"
  /\ row.rig = <<" ", "R", "7">> /\ row.hours = 1

PositionIn(seq, x) == CHOOSE n \in 1 .. Len(seq) : seq[n] = x

\* Two entries of the leaderboard returned, the first ranked above the second, with equal
\* hoursLogged.
Tied(idx, jdx) ==
  /\ idx \in 1 .. Len(result) /\ jdx \in 1 .. Len(result) /\ idx < jdx
  /\ result[idx].hoursLogged = result[jdx].hoursLogged

C24_DenseRanksSortedHours ==
  lbPc = "done" =>
    /\ \A idx \in 1 .. Len(result) : result[idx].rank = idx
    /\ { result[idx].rank : idx \in 1 .. Len(result) } = 1 .. Len(result)
    /\ \A idx \in 1 .. Len(result) - 1 :
         result[idx].hoursLogged >= result[idx + 1].hoursLogged

\* Three entries, two of them tied, returned in another order than their aggregates were
\* created in.
C24_Witness ==
  /\ lbPc = "done" /\ Len(result) = 3
  /\ result[1].hoursLogged > result[2].hoursLogged
  /\ result[2].hoursLogged = result[3].hoursLogged
  /\ result[1].collectorName = order[3]
  /\ result[3].rank = 3

\* C25: from one row folded to the next, the hours, tasks and assigned of an aggregate
\* never decrease, whatever the cells of the rows hold.
C25_MonotonicFold ==
  [][\A name \in DOMAIN collectors :
       /\ name \in DOMAIN collectors'
       /\ collectors'[name].hours >= collectors[name].hours
       /\ collectors'[name].tasks >= collectors[name].tasks
       /\ collectors'[name].assigned >= collectors[name].assigned]_vars

\* C26: a row of the assignments log whose name has no aggregate yet inserts one, with the
\* hours of that row, 1 task completed, 1 task assigned and region MX, and leaves the other
\* aggregates as they are; the leaderboard returned shows it so.
C26_SecondarySeedsAggregate ==
  /\ [][(logRows' = logRows + 1 /\ row'.who # <<>> /\ row'.who \notin DOMAIN collectors)
         => /\ DOMAIN collectors' = DOMAIN collectors \cup {row'.who}
            /\ collectors'[row'.who] = [name |-> row'.who, region |-> "MX",
                                         hours |-> row'.hours, tasks |-> 1, assigned |-> 1]
            /\ \A name \in DOMAIN collectors : collectors'[name] = collectors[name]]_vars
  /\ [](lbPc = "done" =>
         \A idx \in 1 .. Len(result) :
           LET name == result[idx].collectorName
           IN  (name \notin DOMAIN primaryHours /\ secondaryHours[name].n = 1)
                 => /\ result[idx].hoursLogged = secondaryHours[name].sum
                    /\ result[idx].tasksCompleted = 1 /\ result[idx].tasksAssigned = 1
                    /\ result[idx].region = "MX")

\* A log row for Bo, 2 hours, after CA_TAGGED rows that gave Ana 1 hour: Bo is ranked first.
C26_Witness ==
  /\ lbPc = "done" /\ row.src = "log" /\ row.hours = 2
  /\ Len(result) = 2
  /\ result[1].collectorName = trim(row.name)
  /\ result[1].collectorName \notin DOMAIN primaryHours
  /\ result[1].hoursLogged = 2 /\ result[1].tasksCompleted = 1
  /\ result[1].tasksAssigned = 1 /\ result[1].region = "MX"
  /\ result[2].hoursLogged = 1 /\ result[2].region = "SF"

\* The row has no identity: a CA_TAGGED row whose name cell and rig cell are empty after
\* trimming (an empty rig is no key of the rig map), a log row whose name cell is.
NoIdentity(r) ==
  \/ r.src = "ca" /\ trim(r.name) = <<>> /\ trim(r.rig) = <<>>
  \/ r.src = "log" /\ trim(r.name) = <<>>

\* C27: a row without identity is skipped: reading it creates no aggregate and changes
\* none, and the pass goes on with the next row of the same sheet.
C27_RowWithoutIdentitySkipped ==
  [][((caRows' = caRows + 1 \/ logRows' = logRows + 1) /\ NoIdentity(row'))
       => /\ collectors' = collectors
          /\ order' = order
          /\ lbPc' = lbPc /\ lbPc \in {"pass1", "pass2"}
          /\ result' = result]_vars

\* A pass that skipped a CA_TAGGED row and, last, a log row with a blank name cell, and
\* returned the one aggregate of the other CA_TAGGED row.
C27_Witness ==
  /\ lbPc = "done" /\ caRows = 2 /\ logRows = 1
  /\ row.src = "log" /\ row.name = <<" ">>
  /\ Len(result) = 1 /\ result[1].tasksCompleted = 1 /\ result[1].hoursLogged = 2
  /\ DOMAIN collectors = {result[1].collectorName}

\* rate is tasks / assigned * 100 rounded to the nearest integer, a half rounded up; 0 when
\* nothing is assigned.
IsRoundedRate(rate, tasks, assigned) ==
  /\ rate \in Nat
  /\ IF assigned > 0
     THEN 200 * tasks - assigned < 2 * assigned * rate
            /\ 2 * assigned * rate <= 200 * tasks + assigned
     ELSE rate = 0

MaxCount == 4

\* C28: the completionRate of every entry returned is an integer, round(tasksCompleted /
\* tasksAssigned * 100) when tasksAssigned > 0 and 0 otherwise; and so is the rate the
\* handler computes for any counts up to MaxCount (3 of 4 gives 75, 2 of 3 gives 67).
C28_CompletionRate ==
  /\ lbPc = "done" =>
       \A idx \in 1 .. Len(result) :
         IsRoundedRate(result[idx].completionRate, result[idx].tasksCompleted,
                       result[idx].tasksAssigned)
  /\ \A tasks \in 0 .. MaxCount, assigned \in 0 .. MaxCount :
       IsRoundedRate(completionRate([tasks |-> tasks, assigned |-> assigned]), tasks, assigned)
  /\ completionRate([tasks |-> 3, assigned |-> 4]) = 75
  /\ completionRate([tasks |-> 2, assigned |-> 3]) = 67

\* Entries with one and with two tasks, both at rate 100.
C28_Witness ==
  /\ lbPc = "done" /\ Len(result) = 2
  /\ result[1].tasksCompleted = 2 /\ result[1].tasksAssigned = 2
  /\ result[1].completionRate = 100
  /\ result[2].tasksCompleted = 1 /\ result[2].completionRate = 100

(***************************************************************************)
(* Part 4.  The write path: submitAction -> apiPost -> doPost ->           *)
(* handleSubmit. Every request apiPost sends carries the same payload;     *)
(* doPost handles the requests in the order in which they were sent, each  *)
(* at any time after it was sent, whether or not the client still waits    *)
(* for the answer. One run of handleSubmit is one step.                    *)
(***************************************************************************)
ASSIGN    == <<"A", "S", "S", "I", "G", "N">>
COMPLETE  == <<"C", "O", "M", "P", "L", "E", "T", "E">>
CANCEL    == <<"C", "A", "N", "C", "E", "L">>
NOTE_ONLY == <<"N", "O", "T", "E", "_", "O", "N", "L", "Y">>
KnownUpdates == {COMPLETE, CANCEL, NOTE_ONLY}

\* A row of the log: columns A collector, B task, D status, E hours, F planned hours,
\* G date assigned, I assignment id, J notes, K date closed. Dates and ids are the number
\* of the doPost run that wrote them, 0 for what the sheet held before.
LogRow(collector, task, status, hours, notes) ==
  [collector |-> collector, task |-> task, status |-> status, hours |-> hours,
   planned |-> hours, assignedAt |-> 0, id |-> 0, notes |-> notes, closedAt |-> 0]

HeaderRow == LogRow(<<"C", "o", "l", "l", "e", "c", "t", "o", "r">>, <<"T", "a", "s", "k">>, "Status", 0, <<>>)
AnaDone   == LogRow(<<" ", "A", "n", "a">>, <<"T", "1">>, "Completed", 1, <<"o", "l", "d">>)
AnaOpen   == LogRow(<<"A", "n", "a", " ">>, <<"T", "1">>, "In Progress", 0, <<>>)
BoOpen    == LogRow(<<"B", "o">>, <<"T", "1">>, "In Progress", 0, <<>>)

\* What the sheet may hold when submitAction is called; NoSheet: the sheet does not exist.
Sheets ==
  { NoSheet,
    <<HeaderRow>>,
    <<HeaderRow, AnaOpen>>,
    <<HeaderRow, AnaDone, AnaOpen, BoOpen>> }

SubmitPayload(collector, task, actionType) ==
  [collector |-> collector, task |-> task, hours |-> [num |-> TRUE, v |-> 2],
   actionType |-> actionType, notes |-> <<"o", "k", " ">>]

Payloads ==
  { SubmitPayload(<<" ", "A", "n", "a">>, <<"T", "1">>, actionType) :
      actionType \in {ASSIGN, COMPLETE, CANCEL, NOTE_ONLY, <<"H", "O", "L", "D">>, <<>>} }
  \cup { SubmitPayload(<<>>, <<"T", "1">>, ASSIGN), SubmitPayload(<<"A", "n", "a">>, <<" ">>, COMPLETE) }

RequiredText           == <<"c", "o", "l", "l", "e", "c", "t", "o", "r", " ", "a", "n", "d", " ", "t", "a", "s", "k", " ", "a", "r", "e", " ", "r", "e", "q", "u", "i", "r", "e", "d">>
ActionTypeRequiredText == <<"a", "c", "t", "i", "o", "n", "T", "y", "p", "e", " ", "i", "s", " ", "r", "e", "q", "u", "i", "r", "e", "d">>
SheetNotFoundText      == <<"L", "o", "g", " ", "s", "h", "e", "e", "t", " ", "n", "o", "t", " ", "f", "o", "u", "n", "d">>
\* 'Task not found for ' + collector + ': ' + task
TaskNotFoundText(collector, task) ==
  <<"T", "a", "s", "k", " ", "n", "o", "t", " ", "f", "o", "u", "n", "d", " ", "f", "o", "r", " ">> \o collector \o <<":", " ">> \o task
AssignedText  == <<"T", "a", "s", "k", " ", "a", "s", "s", "i", "g", "n", "e", "d">>
CompletedText == <<"T", "a", "s", "k", " ", "c", "o", "m", "p", "l", "e", "t", "e", "d">>
CanceledText  == <<"T", "a", "s", "k", " ", "c", "a", "n", "c", "e", "l", "e", "d">>
NoteSavedText == <<"N", "o", "t", "e", " ", "s", "a", "v", "e", "d">>

\* What a run of handleSubmit leaves: it threw error, or returned message; the sheet after
\* it; the number of rows it appended and the rows it wrote to.
Threw(sheet, error) ==
  [threw |-> TRUE, text |-> error, sheet |-> sheet, appended |-> 0, touched |-> {}]
Returns(sheet, message, rowsAppended, rowsTouched) ==
  [threw |-> FALSE, text |-> message, sheet |-> sheet,
   appended |-> rowsAppended, touched |-> rowsTouched]

\* sheet.appendRow([collector, task, '', 'In Progress', hours, hours, dateStr, 0,
\*                  assignmentId, notes, ''])
appendRow(sheet, collector, task, hours, notes, stamp) ==
  Append(sheet,
         [collector |-> collector, task |-> task, status |-> "In Progress", hours |-> hours,
          planned |-> hours, assignedAt |-> stamp, id |-> stamp, notes |-> notes,
          closedAt |-> 0])

\* A variant that marks the row it found with an actionType it does not know.
UpdateRow_MarksUnknown(sheet, i, actionType, hours, notes, stamp) ==
  IF actionType = COMPLETE
  THEN [sheet EXCEPT ![i].status = "Completed", ![i].hours = hours, ![i].closedAt = stamp,
                     ![i].notes = IF notes # <<>> THEN notes ELSE @]
  ELSE IF actionType = CANCEL
  THEN [sheet EXCEPT ![i].status = "Canceled", ![i].closedAt = stamp]
  ELSE IF actionType = NOTE_ONLY
  THEN [sheet EXCEPT ![i].notes = IF @ # <<>> THEN @ \o <<"\n">> \o notes ELSE notes]
  ELSE [sheet EXCEPT ![i].status = "Unknown"]

\* The body of the loop for a row that matches collector and task: the setValue calls of
\* COMPLETE, CANCEL and NOTE_ONLY; any other actionType writes nothing.
UpdateRow(sheet, i, actionType, hours, notes, stamp) ==
  IF actionType = COMPLETE
  THEN [sheet EXCEPT ![i].status = "Completed", ![i].hours = hours, ![i].closedAt = stamp,
                     ![i].notes = IF notes # <<>> THEN notes ELSE @]
  ELSE IF actionType = CANCEL
  THEN [sheet EXCEPT ![i].status = "Canceled", ![i].closedAt = stamp]
  ELSE IF actionType = NOTE_ONLY
  THEN [sheet EXCEPT ![i].notes = IF @ # <<>> THEN @ \o <<"\n">> \o notes ELSE notes]
  ELSE sheet

UpdatedText(actionType) ==
  IF actionType = COMPLETE THEN CompletedText
  ELSE IF actionType = CANCEL THEN CanceledText
  ELSE NoteSavedText

\* The rows below the header whose trimmed collector and task cells equal the payload's.
Matches(sheet, collector, task) ==
  { i \in 2 .. Len(sheet) : trim(sheet[i].collector) = collector /\ trim(sheet[i].task) = task }

\* handleSubmit(body), run as the stamp-th run of doPost over the sheet.
handleSubmit(body, sheet, stamp) ==
  LET collector  == trim(body.collector)
      task       == trim(body.task)
      hours      == parseHours(body.hours)
      actionType == trim(body.actionType)
      notes      == trim(body.notes)
  IN  IF collector = <<>> \/ task = <<>> THEN Threw(sheet, RequiredText)
      ELSE IF actionType = <<>> THEN Threw(sheet, ActionTypeRequiredText)
      ELSE IF sheet = NoSheet THEN Threw(sheet, SheetNotFoundText)
      ELSE IF actionType = ASSIGN
      THEN Returns(appendRow(sheet, collector, task, hours, notes, stamp),
                   AssignedText, 1, {})
      ELSE LET hits == Matches(sheet, collector, task)
           IN  IF hits = {} THEN Threw(sheet, TaskNotFoundText(collector, task))
               ELSE LET i     == CHOOSE k \in hits : \A j \in hits : j <= k
                        after == UpdateRow(sheet, i, actionType, hours, notes, stamp)
                    IN  IF actionType \in KnownUpdates
                        THEN Returns(after, UpdatedText(actionType), 0, {i})
                        ELSE Threw(after, TaskNotFoundText(collector, task))

\* jsonResponse of doPost: { success: true, data: result, message: result.message || 'OK' }
\* or { success: false, error: err.message }
jsonResponse(out) ==
  IF out.threw
  THEN [success |-> FALSE, data |-> Null, error |-> out.text, message |-> Undefined]
  ELSE [success |-> TRUE, data |-> "v1", error |-> Undefined, message |-> out.text]

\* doPost handles the next request: JSON.parse gives back the payload, handleSubmit runs.
doPost ==
  /\ apiKind = "post"
  /\ served < requests
  /\ LET out == handleSubmit(payload, sheetLog, served + 1)
     IN  /\ sheetLog' = out.sheet
         /\ replies' = Append(replies, jsonResponse(out))
         /\ appended' = appended + out.appended
         /\ touched' = touched \cup out.touched
  /\ served' = served + 1
  /\ UNCHANGED <<cacheVars, apiVars, lbVars, payload>>

\* The answer of doPost to the request of the current attempt reaches the client.
Respond ==
  /\ apiKind = "post"
  /\ served = requests
  /\ ResponseOk(TRUE, [prefix |-> FALSE, json |-> TRUE, env |-> replies[requests], text |-> <<>>])

InitSubmit ==
  /\ InitCache /\ InitApi /\ InitBoard
  /\ payload \in Payloads /\ sheetLog \in Sheets
  /\ served = 0 /\ replies = <<>> /\ appended = 0 /\ touched = {}

\* submitAction(payload) is apiPost(payload).
submitAction == ApiCall("post")

NextSubmit ==
     \/ submitAction
     \/ doPost
     \/ Respond
     \/ \E message \in AbortTexts : TimeoutFires(message)
     \/ \E message \in TransportTexts : FetchThrows(message)
     \/ \E status \in Statuses : ResponseNotOk(status, <<>>)
     \/ SleepDone

SpecSubmit == InitSubmit /\ [][NextSubmit]_vars

(***************************************************************************)
(* Properties of the write path, checked under SpecSubmit.                 *)
(***************************************************************************)

\* C29: one submitAction call appends at most one row to the log, or writes to at most one
\* row of it, whatever the transport does to its attempts.
C29_AtMostOneRowPerCall ==
  appended + Cardinality(touched) <= 1

\* The payload or the sheet gives handleSubmit one of its reasons to throw.
MustThrow ==
  LET collector  == trim(payload.collector)
      task       == trim(payload.task)
      actionType == trim(payload.actionType)
  IN  \/ collector = <<>> \/ task = <<>> \/ actionType = <<>>
      \/ sheetLog = NoSheet
      \/ actionType \notin ({ASSIGN} \cup KnownUpdates)
      \/ actionType \in KnownUpdates /\ Matches(sheetLog, collector, task) = {}

HandlerErrors ==
  { RequiredText, ActionTypeRequiredText, SheetNotFoundText,
    TaskNotFoundText(trim(payload.collector), trim(payload.task)) }

\* C30: a run of handleSubmit that throws, for a missing collector, task or actionType, a
\* missing log sheet, an unknown actionType or no matching row, leaves the log as it was:
\* no row appended, no row written to; it throws for these reasons and no other, and what
\* doPost answers is the error's message in a failure envelope.
C30_FailedWriteChangesNothing ==
  [][served' = served + 1
       => /\ MustThrow <=> ~replies'[served'].success
          /\ ~replies'[served'].success
               => /\ sheetLog' = sheetLog
                  /\ appended' = appended /\ touched' = touched
                  /\ replies'[served'].error \in HandlerErrors]_vars

\* An actionType the handler does not know, over a sheet with rows of the collector and
\* task: the handler passed the matching rows, threw, and the client gave up.
C30_Witness ==
  /\ served = 1 /\ ~replies[1].success
  /\ trim(payload.actionType) = <<"H", "O", "L", "D">>
  /\ Matches(sheetLog, trim(payload.collector), trim(payload.task)) = {2, 3}
  /\ sheetLog = <<HeaderRow, AnaDone, AnaOpen, BoOpen>>
  /\ appended = 0 /\ touched = {}
  /\ apiPc = "rejected"

(***************************************************************************)
(* Further properties of the cache.                                        *)
(***************************************************************************)

\* The cache keys the exported fetchers build (googleSheets.ts, lines 285-405): a fixed
\* class, followed for todayLog and collectorStats by the collector's name, which may be
\* empty or hold ':' itself.
CollectorSegments == { <<"Ana">>, <<"">>, <<"a", "b">>, <<"default">>, <<"tasks", "x">> }
ProgramKeys ==
  { <<c>> : c \in {"collectors", "tasks", "recollections", "taskActuals", "adminDashboard",
                   "leaderboard", "adminCollectors", "taskRequirements"} }
    \cup { <<c>> \o n : c \in {"todayLog", "collectorStats"}, n \in CollectorSegments }

\* The classes with a row of their own in MEMORY_TTL and STORAGE_TTL.
Listed == Classes \ {"default"}

\* C31: for every cache key, those of the calls made included, the memory TTL is at most
\* the durable TTL, and a key whose class (its part before the first ':') has no row in
\* the tables gets 30 s and 2 min.
C31_MemoryTtlAtMostDurableTtl ==
  \A key \in ProgramKeys \cup { calls[i].key : i \in CallIds } :
     /\ getMemoryTTL(key) <= getStorageTTL(key)
     /\ key[1] \notin Listed => getMemoryTTL(key) = 30 * 1000 /\ getStorageTTL(key) = 2 * 60 * 1000

\* A call for a key of an unlisted class was answered from the durable tier by an entry
\* older than 30 s and no older than 2 min: expired for the memory tier, fresh for the store.
C31_Witness ==
  \E i \in CallIds :
     /\ calls[i].key[1] \notin Listed
     /\ calls[i].pc = "bgFetch" /\ calls[i].durable = "fresh"
     /\ fetchedAt[calls[i].key] # Never
     /\ now - fetchedAt[calls[i].key] > getMemoryTTL(calls[i].key)
     /\ now - fetchedAt[calls[i].key] <= getStorageTTL(calls[i].key)

\* getItem of call i rejected, or answered with a text that is not an entry.
ReadBroken(i) == i \in CallIds /\ calls[i].durable \in {"failed", "corrupt"}

\* C32: a call whose getItem rejected, or answered with a corrupt or unparseable text, is
\* not rejected by the read: getFromStorage resolves to null and the call goes on to
\* await its fetcher, so it resolves with what the fetcher returned or rejects with it.
C32_CorruptReadsAsAbsent ==
  \A i \in CallIds :
     ReadBroken(i) =>
        /\ calls[i].path = "cold"
        /\ calls[i].fetches = 1
        /\ calls[i].outcome = "resolved" => calls[i].result = calls[i].got

\* The calls that started a fetcher for the key. getItem requests are served in the order
\* they were made, so the fetchers start in call order and the last of them is the call
\* with the largest number.
FetchersOf(key) == { i \in CallIds : calls[i].key = key /\ calls[i].fetches = 1 }
LastStarted(key) == CHOOSE i \in FetchersOf(key) : \A j \in FetchersOf(key) : j <= i

\* Every fetcher for the key has resolved and every setItem of its value has been served.
Settling(key) ==
  \E i \in CallIds : calls[i].key = key /\ (calls[i].pc # "done" \/ calls[i].landed = "queued")
Quiescent(key) == FetchersOf(key) # {} /\ ~Settling(key)

\* C37: once all the fetcher calls for a key have succeeded and their writes are done,
\* both tiers hold the value returned by the fetcher that was started last, in whatever
\* order the fetchers completed.
C37_LastStartedFetchWins ==
  \A key \in Keys :
     Quiescent(key) =>
        /\ memoryCache[key] # NoEntry
        /\ memoryCache[key].data = calls[LastStarted(key)].got
        /\ storage[StorageKey(key)] # NoEntry
        /\ storage[StorageKey(key)].data = calls[LastStarted(key)].got

\* All the calls for the key are over, with every setItem served.
AllSettled(key) ==
  /\ \E i \in CallIds : calls[i].key = key
  /\ \A i \in CallIds :
        calls[i].key = key => calls[i].pc = "done" /\ calls[i].landed # "queued"
NoWriteFailed(key) == \A i \in CallIds : calls[i].key = key => calls[i].landed # "failed"

\* C38: once every fetcher call and every durable write for a key has settled, and no
\* durable write has failed, the two tiers hold the same value for the key whenever both
\* hold an entry.
C38_TiersAgreeAtQuiescence ==
  \A key \in Keys :
     (AllSettled(key) /\ NoWriteFailed(key)
        /\ memoryCache[key] # NoEntry /\ storage[StorageKey(key)] # NoEntry)
       => memoryCache[key].data = storage[StorageKey(key)].data

\* The remote call of the fetcher of call i failed or answered an empty list.
RemoteEmpty(i) == calls[i].remote \in {"failed", "empty"}
HoldsEmpty ==
  /\ memoryCache[LeaderboardKey] # NoEntry
  /\ memoryCache[LeaderboardKey].data = EmptyList
  /\ now - memoryCache[LeaderboardKey].ts <= getMemoryTTL(LeaderboardKey)

\* C39: no fetchLeaderboard call is rejected; a fetcher whose remote call fails or
\* answers an empty list resolves with the empty list; on a cold miss the empty list goes
\* to the memory tier and a setItem of it is issued in the step in which the call returns
\* it; a call made while the memory tier holds the empty list, no older than the memory
\* TTL of the leaderboard, returns the empty list and starts neither a fetcher nor a
\* request to the store.
C39_LeaderboardFailureCachedAsEmpty ==
  /\ [](\A i \in CallIds :
          calls[i].key = LeaderboardKey =>
             /\ calls[i].outcome # "rejected" /\ calls[i].fetch # "failed"
             /\ RemoteEmpty(i) => calls[i].got = EmptyList
             /\ (RemoteEmpty(i) /\ calls[i].path = "cold") =>
                    calls[i].outcome = "resolved" /\ calls[i].result = EmptyList)
  /\ [][\A i \in CallIds :
          (calls[i].pc = "awaitFetch" /\ RemoteEmpty(i)')
             => /\ memoryCache'[LeaderboardKey] = [data |-> EmptyList, ts |-> now]
                /\ storageOps' = Append(storageOps,
                      [op |-> "set", key |-> LeaderboardKey, call |-> i,
                       entry |-> [data |-> EmptyList, ts |-> now]])]_vars
  /\ [][(Called(LeaderboardKey) /\ HoldsEmpty)
          => /\ calls'[Len(calls')].outcome = "resolved"
             /\ calls'[Len(calls')].result = EmptyList
             /\ calls'[Len(calls')].path = "memory"
             /\ fetchCount' = fetchCount /\ storageOps' = storageOps]_vars

\* A cold miss whose remote call failed has put the empty list in both tiers, and a call
\* made two minutes later was answered with it from the memory tier: one fetcher call
\* in all.
C39_Witness ==
  \E i, j \in CallIds :
    /\ i < j
    /\ calls[i].path = "cold" /\ calls[i].remote = "failed" /\ calls[i].landed = "landed"
    /\ calls[j].path = "memory" /\ calls[j].result = EmptyList
    /\ fetchCount[LeaderboardKey] = 1
    /\ storage[StorageKey(LeaderboardKey)] # NoEntry
    /\ storage[StorageKey(LeaderboardKey)].data = EmptyList
    /\ now - memoryCache[LeaderboardKey].ts = getMemoryTTL(LeaderboardKey)

(***************************************************************************)
(* Further properties of the back end.                                     *)
(***************************************************************************)

\* The rows of the roster that carry both a name and a rig id, by row number.
Mapping(n) == trim(roster[n].name) # <<>> /\ trim(roster[n].rig) # <<>>
RowsOf(rig) == { n \in 1 .. Len(roster) : Mapping(n) /\ trim(roster[n].rig) = rig }
LastOf(rows) == CHOOSE n \in rows : \A m \in rows : m <= n

\* C33: once the rig map is built, it maps exactly the rig ids of the roster rows with a
\* non-empty name and a non-empty rig id, each to the name on the last such row
\* listing it; rows with an empty name or an empty rig id add nothing.
C33_LastSeenWins ==
  lbPc = "pass1" /\ caRows = 0 =>
     /\ DOMAIN rigToName = { trim(roster[n].rig) : n \in { m \in 1 .. Len(roster) : Mapping(m) } }
     /\ \A rig \in DOMAIN rigToName :
           rigToName[rig] = trim(roster[LastOf(RowsOf(rig))].name)

\* The roster lists one rig id for two different names, and holds a row without a name
\* or without a rig id after them.
C33_Witness ==
  /\ lbPc = "pass1" /\ caRows = 0
  /\ \E rig \in DOMAIN rigToName :
        \E n, m \in RowsOf(rig) :
           n < m /\ trim(roster[n].name) # trim(roster[m].name) /\ m = LastOf(RowsOf(rig))
  /\ \E n \in 1 .. Len(roster) : ~Mapping(n) /\ n = Len(roster)

(***************************************************************************)
(* Further properties of the HTTP client, checked under SpecApiLive.       *)
(***************************************************************************)
AllRetryableHttp ==
  \A n \in Attempts :
     outcomes[n].cls = "http" /\ outcomes[n].status \in RETRYABLE_STATUS_CODES
Settled == apiPc \in {"resolved", "rejected"}

\* The part of C34 that holds in every state: never more than 3 requests, one outcome
\* per request made; a call that met a retryable status on every attempt goes on until
\* its third request and then rejects with the HTTP failure of that request.
RetryBudget ==
  /\ requests <= 3
  /\ Len(outcomes) <= requests
  /\ Settled => Len(outcomes) = requests
  /\ (outcomes # <<>> /\ AllRetryableHttp) =>
        /\ apiPc # "resolved"
        /\ apiPc = "rejected" <=> Len(outcomes) = 3
        /\ apiPc = "rejected" =>
              /\ requests = 3
              /\ \E text \in ErrorBodies :
                    apiError = FailurePrefix(apiKind)
                                 \o HttpErrorText(outcomes[3].status, text, RequestFailedText(apiKind))

\* C34: whatever the outcomes of its attempts, a call of apiGet or apiPost makes at most
\* 3 requests and ends by resolving or rejecting; with a retryable HTTP status on every
\* attempt it makes exactly 3 requests and then rejects with the HTTP failure.
C34_BoundedRetriesAlwaysSettle ==
  /\ []RetryBudget
  /\ (apiPc \in {"fetching", "sleeping"}) ~> Settled

C34_Witness ==
  /\ apiPc = "rejected" /\ AllRetryableHttp /\ Len(outcomes) = 3 /\ requests = 3
  /\ outcomes[1].status # outcomes[3].status

\* C35: every attempt of apiGet runs under a timer of its own, armed when the attempt
\* starts; no other timer is armed beside it, and none is armed while the call sleeps
\* before its next attempt or after it has resolved or rejected.
C35_OneFreshTimerPerAttempt ==
  apiKind = "get" =>
     /\ Cardinality(timers) <= 1
     /\ apiPc = "fetching" => timers = {attempt}
     /\ apiPc \in {"sleeping", "resolved", "rejected"} => timers = {}

\* The second attempt of an apiGet is under way after the first was aborted by its timer.
C35_Witness ==
  /\ apiKind = "get" /\ apiPc = "fetching" /\ attempt = 1 /\ timers = {1}
  /\ Len(outcomes) = 1 /\ outcomes[1].cls = "timeout"

(***************************************************************************)
(* Further properties of the leaderboard of the back end: its script cache *)
(* under SpecAppCache, its counts under SpecBoard.                         *)
(***************************************************************************)
\* A request starts, ends, and is answered from the sheets.
Starts   == lbPc = "idle" /\ lbPc' # "idle"
Finishes == lbPc \in {"pass1", "pass2"} /\ lbPc' = "done"
Fresh    == appCache # NoEntry /\ clock - appCache.ts <= APP_CACHE_TTL
Untouched == caRows' = caRows /\ logRows' = logRows /\ collectors' = collectors
               /\ rigToName' = rigToName

C40_AllTasksCompleted ==
  /\ \A name \in DOMAIN collectors :
        collectors[name].tasks = collectors[name].assigned /\ collectors[name].assigned >= 1
  /\ \A idx \in 1 .. Len(result) :
        /\ result[idx].tasksCompleted = result[idx].tasksAssigned
        /\ result[idx].tasksAssigned >= 1
        /\ result[idx].completionRate = 100

\* A leaderboard computed from the sheets is returned with a collector of two CA_TAGGED
\* rows and a collector known from the assignments log alone.
C40_Witness ==
  /\ lbPc = "done" /\ lbFrom = "sheets" /\ caRows = 2 /\ logRows = 1
  /\ Cardinality(DOMAIN collectors) = 2
  /\ \E idx, other \in 1 .. Len(result) :
        /\ result[idx].tasksAssigned = 2 /\ result[idx].completionRate = 100
        /\ result[other].tasksAssigned = 1 /\ result[other].completionRate = 100
====
